---- MODULE Spec2Model ----
(***************************************************************************)
(* Query generation pipeline of the AI runtime (ai-runtime/agent):         *)
(* the LangGraph state machine of query_pipeline.py, the nodes of          *)
(* agent/nodes/ (intent, schema, builder, validator, response) and the     *)
(* static SQL validator of mcp_tools/sql_validator.py.                     *)
(*                                                                         *)
(* SQL text is a sequence of lexemes: words, single blanks (" "), line     *)
(* breaks ("\n"), ";" and the comment markers "--", "/*", "*/".  Two word   *)
(* lexemes are never adjacent, so every word lexeme is delimited by \b.    *)
(***************************************************************************)
EXTENDS Integers, Sequences, FiniteSets, TLC

(***************************************************************************)
(* Bounds of the model                                                     *)
(***************************************************************************)
\* longest lexeme sequence enumerated for the static validator
MaxSqlLen == 3

(***************************************************************************)
(* Lexical layer                                                           *)
(***************************************************************************)
NoSql == <<"<None>">>

Blank == {" ", "\n"}
Punct == {";", "--", "/*", "*/"}

\* str.upper() on the word lexemes of the model
Upper(w) ==
  CASE w = "select" -> "SELECT"
    [] w = "from" -> "FROM"
    [] w = "drop" -> "DROP"
    [] w = "update" -> "UPDATE"
    [] w = "id" -> "ID"
    [] w = "email" -> "EMAIL"
    [] w = "orders" -> "ORDERS"
    [] w = "customers" -> "CUSTOMERS"
    [] w = "secrets" -> "SECRETS"
    [] w = "customers.email" -> "CUSTOMERS.EMAIL"
    [] w = "limit" -> "LIMIT"
    [] w = "left" -> "LEFT"
    [] OTHER -> w

\* str.lower() on the word lexemes of the model
Lower(w) ==
  CASE w = "SELECT" -> "select"
    [] w = "FROM" -> "from"
    [] w = "DROP" -> "drop"
    [] w = "UPDATE" -> "update"
    [] w = "ID" -> "id"
    [] w = "EMAIL" -> "email"
    [] w = "ORDERS" -> "orders"
    [] w = "CUSTOMERS" -> "customers"
    [] w = "SECRETS" -> "secrets"
    [] w = "CUSTOMERS.EMAIL" -> "customers.email"
    [] w = "LIMIT" -> "limit"
    [] OTHER -> w

MapSeq(Op(_), s) == [i \in 1..Len(s) |-> Op(s[i])]

RECURSIVE StripLeft(_)
StripLeft(s) ==
  IF s # <<>> /\ Head(s) \in Blank THEN StripLeft(Tail(s)) ELSE s

RECURSIVE StripRight(_)
StripRight(s) ==
  IF s # <<>> /\ s[Len(s)] \in Blank THEN StripRight(SubSeq(s, 1, Len(s) - 1)) ELSE s

\* str.strip()
Strip(s) == StripLeft(StripRight(s))

\* str.rstrip(';')
RECURSIVE RStripSemi(_)
RStripSemi(s) ==
  IF s # <<>> /\ s[Len(s)] = ";" THEN RStripSemi(SubSeq(s, 1, Len(s) - 1)) ELSE s

\* re.sub(r'--.*$', '', sql, flags=re.MULTILINE): drop from "--" to the end of the line
RECURSIVE DropLineComments(_, _)
DropLineComments(s, inComment) ==
  IF s = <<>> THEN <<>>
  ELSE IF Head(s) = "\n" THEN <<"\n">> \o DropLineComments(Tail(s), FALSE)
  ELSE IF inComment THEN DropLineComments(Tail(s), TRUE)
  ELSE IF Head(s) = "--" THEN DropLineComments(Tail(s), TRUE)
  ELSE <<Head(s)>> \o DropLineComments(Tail(s), FALSE)

\* position of the first "*/" at or after index i, 0 when there is none
RECURSIVE FindClose(_, _)
FindClose(s, i) ==
  IF i > Len(s) THEN 0 ELSE IF s[i] = "*/" THEN i ELSE FindClose(s, i + 1)

\* re.sub(r'/\*.*?\*/', '', sql, flags=re.DOTALL): drop closed block comments, non-greedy
RECURSIVE DropBlockComments(_)
DropBlockComments(s) ==
  IF s = <<>> THEN <<>>
  ELSE IF Head(s) = "/*" /\ FindClose(s, 2) # 0
       THEN DropBlockComments(SubSeq(s, FindClose(s, 2) + 1, Len(s)))
  ELSE <<Head(s)>> \o DropBlockComments(Tail(s))

\* re.sub(r'\s+', ' ', sql): every run of blanks becomes one blank
RECURSIVE CollapseBlanks(_)
CollapseBlanks(s) ==
  IF s = <<>> THEN <<>>
  ELSE IF Head(s) \in Blank
       THEN <<" ">> \o CollapseBlanks(StripLeft(s))
  ELSE <<Head(s)>> \o CollapseBlanks(Tail(s))

NewlineToBlank(w) == IF w = "\n" THEN " " ELSE w

\* BaseNode._normalize_sql
_normalize_sql(sql) ==
  IF sql = NoSql \/ sql = <<>> THEN <<>>
  ELSE LET a == DropLineComments(sql, FALSE)
           b == DropBlockComments(a)
           c == MapSeq(Lower, Strip(MapSeq(NewlineToBlank, b)))
           d == CollapseBlanks(c)
       IN RStripSemi(d)

(***************************************************************************)
(* Schema catalog of the agent (schema_metadata) and SQL texts            *)
(***************************************************************************)
\* schema_metadata["tables"], in catalog order
\* tables of the catalog besides the four the SQL texts name
ExtraTables ==
  <<"t05", "t06", "t07", "t08", "t09", "t10", "t11", "t12", "t13", "t14",
    "t15", "t16", "t17", "t18", "t19", "t20", "t21", "t22", "t23", "t24",
    "t25", "t26", "t27", "t28", "t29", "t30">>

\* schema_metadata["tables"], in catalog order
AllTables == <<"orders", "customers", "regions", "secrets">> \o ExtraTables
TableNames == {AllTables[i] : i \in 1..Len(AllTables)}

\* table.get("isQueryable", True)
TableQueryable(t) == t # "secrets"

\* columns of each table and col.get("isQueryable", True)
ColumnsOf(t) == IF t = "customers" THEN {"id", "email"} ELSE {"id"}
ColumnQueryable(t, c) == ~(t = "customers" /\ c = "email")

\* schema_metadata["relationships"], in catalog order
Relationships ==
  << [sourceTable |-> "orders", targetTable |-> "customers"],
     [sourceTable |-> "customers", targetTable |-> "regions"] >>
  \o [i \in 1..Len(ExtraTables) |-> [sourceTable |-> ExtraTables[i], targetTable |-> "regions"]]

\* sensitivity_rules["forbiddenFields"]: a run only gets past unified_intent
\* when the list is empty (intent.py:287 calls f.lower() on each dict entry)
ForbiddenFields == {}

SqlOrders == <<"SELECT", " ", "id", " ", "FROM", " ", "orders">>
SqlOrdersLower == <<"select", " ", "id", "\n", "from", " ", "orders", ";">>
SqlQualEmail == <<"SELECT", " ", "customers.email", " ", "FROM", " ", "customers">>
SqlSecrets == <<"SELECT", " ", "id", " ", "FROM", " ", "secrets">>
SqlDrop == <<"DROP", " ", "TABLE", " ", "orders">>

\* the SQL texts the language model returns in this model
SqlTexts ==
  {SqlOrders, SqlOrdersLower, SqlQualEmail, SqlSecrets, SqlDrop}

\* sqlglot.parse_one accepts every text of SqlTexts
Parses(sql) == sql \in SqlTexts

IsWord(w) == w \notin Blank /\ w \notin Punct

\* the first statement of the text (what parse_one / sqlparse.parse(...)[0] return)
RECURSIVE FirstStatement(_)
FirstStatement(s) ==
  IF s = <<>> \/ Head(s) = ";" THEN <<>> ELSE <<Head(s)>> \o FirstStatement(Tail(s))

Words(s) == SelectSeq(s, IsWord)

\* tables named after FROM / JOIN in the first statement
SqlTables(sql) ==
  LET w == Words(FirstStatement(sql))
  IN {Lower(w[i]) : i \in {j \in 2..Len(w) : Upper(w[j - 1]) \in {"FROM", "JOIN"}}}

SqlKeywords == {"SELECT", "FROM", "JOIN", "DROP", "TABLE", "UPDATE"}

\* table qualifier and column name of a column reference
QualifierOf(w) == IF Lower(w) = "customers.email" THEN "customers" ELSE ""
ColumnNameOf(w) == IF Lower(w) = "customers.email" THEN "email" ELSE Lower(w)

\* column references (identifiers that are neither keywords nor table names)
SqlColumns(sql) ==
  LET w == Words(FirstStatement(sql))
  IN {Lower(w[i]) : i \in {j \in 1..Len(w) :
         /\ Upper(w[j]) \notin SqlKeywords
         /\ (j = 1 \/ Upper(w[j - 1]) \notin {"FROM", "JOIN", "TABLE"})}}

\* the text names a table or column that is non-queryable in the catalog
ReferencesRestricted(sql) ==
  \/ \E t \in SqlTables(sql) : t \in TableNames /\ ~TableQueryable(t)
  \/ \E c \in SqlColumns(sql) : \E t \in SqlTables(sql) :
        /\ t \in TableNames
        /\ ColumnNameOf(c) \in ColumnsOf(t)
        /\ ~ColumnQueryable(t, ColumnNameOf(c))

(***************************************************************************)
(* SQLValidator.validate (mcp_tools/sql_validator.py)                      *)
(***************************************************************************)
\* the single-word entries of FORBIDDEN_KEYWORDS that the lexemes can spell
FORBIDDEN_KEYWORDS == <<"DELETE", "UPDATE", "INSERT", "DROP", "ALTER", "TRUNCATE", "CREATE">>

\* re.search(r'\bKEYWORD\b', sql_upper)
HasKeyword(sql, kw) == \E i \in 1..Len(sql) : IsWord(sql[i]) /\ Upper(sql[i]) = kw

\* DANGEROUS_PATTERNS r';\s*--' and r'/\*.*\*/' ('.' does not cross a line break)
RECURSIVE OnlyBlanks(_, _, _)
OnlyBlanks(s, i, j) == i > j \/ (s[i] \in Blank /\ OnlyBlanks(s, i + 1, j))

RECURSIVE NoNewline(_, _, _)
NoNewline(s, i, j) == i > j \/ (s[i] # "\n" /\ NoNewline(s, i + 1, j))

HasDangerousPattern(sql) ==
  \/ \E i, j \in 1..Len(sql) :
        i < j /\ sql[i] = ";" /\ sql[j] = "--" /\ OnlyBlanks(sql, i + 1, j - 1)
  \/ \E i, j \in 1..Len(sql) :
        i < j /\ sql[i] = "/*" /\ sql[j] = "*/" /\ NoNewline(sql, i + 1, j - 1)

\* sql_upper.strip().startswith('SELECT')
StartsWithSelect(sql) ==
  LET s == Strip(sql) IN s # <<>> /\ Upper(Head(s)) = "SELECT"

\* sql.count(';')
CountSemicolons(sql) == Cardinality({i \in 1..Len(sql) : sql[i] = ";"})

RECURSIVE KeywordErrors(_, _)
KeywordErrors(sql, i) ==
  IF i > Len(FORBIDDEN_KEYWORDS) THEN <<>>
  ELSE (IF HasKeyword(sql, FORBIDDEN_KEYWORDS[i])
        THEN <<"Forbidden keyword detected">> ELSE <<>>) \o KeywordErrors(sql, i + 1)

\* variant: the limit on ';' is off by one
SemicolonErrors_OffByOne(sql) ==
  IF CountSemicolons(sql) > 2 THEN <<"Multiple statements not allowed">> ELSE <<>>

\* the step that rejects more than one ';'
SemicolonErrors(sql) ==
  IF CountSemicolons(sql) > 1 THEN <<"Multiple statements not allowed">> ELSE <<>>

\* SQLValidator.validate: the list result["errors"]; is_valid is errors = <<>>
validate(sql, parseOk, forbidden) ==
  IF sql = NoSql \/ Strip(sql) = <<>> THEN <<"SQL query is empty">>
  ELSE IF ~parseOk THEN <<"Syntax error">>
  ELSE KeywordErrors(sql, 1)
       \o (IF HasDangerousPattern(sql) THEN <<"Dangerous SQL pattern detected">> ELSE <<>>)
       \o (IF ~StartsWithSelect(sql) THEN <<"Only SELECT queries are allowed">> ELSE <<>>)
       \o SemicolonErrors(sql)
       \o (IF \E f \in forbidden : \E i \in 1..Len(sql) : Lower(sql[i]) = Lower(f)
           THEN <<"Forbidden field accessed">> ELSE <<>>)

\* SQLValidator.lint_sql: disabled, returns []
lint_sql(sql) == <<>>

(***************************************************************************)
(* Pipeline state                                                          *)
(***************************************************************************)
VARIABLES
  node,        \* the graph node that runs next; "END" after a terminal node
  state,       \* the QueryState of the run
  proc,        \* locals of QueryPipeline.process (tracked values, audit record, complete event)
  hist,        \* history of the run: what was executed, counted for the properties
  vsql,        \* input of the static validator (pure-function specification)
  vresult,     \* its result
  tasks,       \* QueryJobManager: the asyncio tasks created so far
  activeJobs,  \* QueryJobManager._active_jobs: conversation -> registered job
  runs,          \* concurrent QueryPipeline objects: position, agent, app, LLM clients used
  nodeSets,      \* the QueryGraphNodes objects created so far
  pipelineCache, \* QueryPipeline._pipeline_cache: agent -> node set bound into the compiled graph
  cquery,        \* a canonical query (input of the enforcer and of the SQL generator)
  enforced,      \* results of _enforce_queryability applied once and twice
  compiled,      \* result of DialectTranslator.generate_sql
  rstate,        \* a QueryState at the entry of sql_corrector (input of the repair view)
  rview,         \* the tables of the schema view built for the repair prompt
  checked_sql,   \* a statement that passed static validation (input of the sandbox check)
  sandbox_sql,   \* the statement the sandbox check sends to the live database
  analysed,      \* a saved thread state and a reply of the intent call (input of the routing)
  routed,        \* the state after unified_intent_node and the node chosen next, then the same after schema_search
  schemaVersion, \* the agent's schema data in the system database, counted by its edits
  embCache,      \* EmbeddingCache.cache[agent_id]: <<>> or the cached entry
  readers,       \* calls of get_schema_embeddings: position, data fetched, data returned
  sinput,        \* the signals of one relevance search: vector hits, keywords, intent tables
  sretained,     \* the tables schema_search retains before expansion
  threadStates,  \* the saved thread states of the system database, by thread id
  turn,          \* the local variables of one call of process()
  eventBuffers,  \* QueryJobManager._event_buffers: conversation -> events kept for replay
  eventsSent     \* per conversation, the events its current job has emitted so far

pipelineVars == <<node, state, proc, hist>>
validateVars == <<vsql, vresult>>
jobVars == <<tasks, activeJobs>>
cacheVars == <<runs, nodeSets, pipelineCache>>
canonVars == <<cquery, enforced, compiled>>
repairVars == <<rstate, rview>>
sandboxVars == <<checked_sql, sandbox_sql>>
routeVars == <<analysed, routed>>
embVars == <<schemaVersion, embCache, readers>>
searchVars == <<sinput, sretained>>
threadVars == <<threadStates, turn>>
eventVars == <<eventBuffers, eventsSent>>

\* what the steps of a pipeline run leave alone
offPipeline == <<eventVars, threadVars, routeVars, embVars, searchVars, sandboxVars, repairVars, validateVars, jobVars, cacheVars, canonVars>>

\* what a call of the static validator leaves alone
offValidate == <<eventVars, threadVars, routeVars, embVars, searchVars, sandboxVars, repairVars, jobVars, cacheVars, canonVars>>

\* what the job manager leaves alone
offJobs == <<eventVars, threadVars, routeVars, embVars, searchVars, sandboxVars, repairVars, pipelineVars, validateVars, cacheVars, canonVars>>

\* what building and sharing compiled graphs leaves alone
offCache == <<eventVars, threadVars, routeVars, embVars, searchVars, sandboxVars, repairVars, pipelineVars, validateVars, jobVars, canonVars>>

\* what the functions over canonical queries leave alone
offCanon == <<eventVars, threadVars, routeVars, embVars, searchVars, pipelineVars, validateVars, jobVars, cacheVars, repairVars, sandboxVars>>

\* what building the repair view leaves alone
offRepair == <<eventVars, threadVars, routeVars, embVars, searchVars, pipelineVars, validateVars, jobVars, cacheVars, canonVars, sandboxVars>>

\* what the routing after the intent analysis leaves alone
offRoute ==
  <<eventVars, threadVars, pipelineVars, validateVars, jobVars, cacheVars, canonVars, repairVars, sandboxVars,
    embVars, searchVars>>

\* what the embedding cache leaves alone
offEmb ==
  <<eventVars, threadVars, pipelineVars, validateVars, jobVars, cacheVars, canonVars, repairVars, sandboxVars,
    routeVars, searchVars>>

\* what the scoring of a relevance search leaves alone
offSearch ==
  <<eventVars, threadVars, pipelineVars, validateVars, jobVars, cacheVars, canonVars, repairVars, sandboxVars,
    routeVars, embVars>>

\* what the thread bookkeeping of process() leaves alone
offThreads ==
  <<eventVars, pipelineVars, validateVars, jobVars, cacheVars, canonVars, repairVars, sandboxVars,
    routeVars, embVars, searchVars>>

\* what the replay buffer leaves alone
offEvents ==
  <<pipelineVars, validateVars, jobVars, cacheVars, canonVars, repairVars, sandboxVars,
    routeVars, embVars, searchVars, threadVars>>

\* what preparing the sandbox statement leaves alone
offSandbox == <<eventVars, threadVars, routeVars, embVars, searchVars, pipelineVars, validateVars, jobVars, cacheVars, canonVars, repairVars>>

vars ==
  <<node, state, proc, hist, vsql, vresult, tasks, activeJobs,
    runs, nodeSets, pipelineCache, cquery, enforced, compiled, rstate, rview,
    checked_sql, sandbox_sql, analysed, routed, schemaVersion, embCache, readers,
    sinput, sretained, threadStates, turn, eventBuffers, eventsSent>>

NoError == <<>>
NoIntent ==
  [primary_intent |-> "none", route_to |-> "query_builder", is_refinement |-> FALSE,
   confidence |-> 0, needs_schema_search |-> FALSE, required_tables |-> <<>>,
   new_entities |-> FALSE, is_ambiguous |-> FALSE]

SeqToSet(q) == {q[i] : i \in 1..Len(q)}

\* saved thread states a turn can start from: none, or the state of an earlier query turn
PreviousStates ==
  { [exists |-> FALSE, relevant_schema |-> <<>>, pinned_schema |-> <<>>,
     generated_sql |-> NoSql],
    [exists |-> TRUE, relevant_schema |-> <<"orders">>, pinned_schema |-> <<>>,
     generated_sql |-> SqlOrders],
    [exists |-> TRUE, relevant_schema |-> <<"orders", "customers">>,
     pinned_schema |-> <<"orders">>, generated_sql |-> SqlOrders],
    [exists |-> TRUE, relevant_schema |-> <<"orders">> \o SubSeq(ExtraTables, 1, 23),
     pinned_schema |-> <<>>, generated_sql |-> SqlOrders],
    [exists |-> TRUE, relevant_schema |-> AllTables, pinned_schema |-> <<>>,
     generated_sql |-> SqlOrders] }

\* initial_state built by QueryPipeline.process
InitialState(prev) ==
  [ is_refinement |-> FALSE,
    needs_schema_search |-> FALSE,
    new_entities |-> FALSE,
    intent |-> NoIntent,
    relevant_tables_from_intent |-> <<>>,
    is_ambiguous |-> FALSE,
    relevant_schema |-> prev.relevant_schema,
    pinned_schema |-> prev.pinned_schema,   \* <<>> stands for None
    previous_sql |-> prev.generated_sql,
    no_match |-> FALSE,
    generated_sql |-> NoSql,
    validation_success |-> "unset",  \* "unset" | "true" | "false"
    is_connection_error |-> FALSE,
    queryability_warnings |-> {},
    correction_iteration |-> 0,
    error |-> NoError,
    final_response |-> "" ]

InitialProc(prev) ==
  [ last_generated_sql |-> prev.generated_sql,
    completed |-> FALSE,
    final_node |-> "none",
    is_success |-> FALSE,
    error_message |-> NoError,
    has_sql |-> FALSE,
    sql |-> NoSql,
    response_error |-> NoError ]  \* the error text inside the complete event's response

InitialHist ==
  [ executed |-> {},          \* nodes that ran
    validations |-> 0,        \* times the validator actually checked a SQL text
    lastCorrection |-> "none",\* outcome of the latest sql_corrector invocation
    proposalSame |-> FALSE,   \* its proposal equalled the failed SQL after normalization
    connErrorAt |-> -1,       \* correction_iteration when a connection failure was reported
    correctorAfterConn |-> FALSE,
    validatedSql |-> NoSql,   \* the text of the latest validation that succeeded
    validatedScope |-> {},    \* tables in scope of the turn at that validation
    emptySearch |-> "unset",  \* whether schema_search ended with an empty relevant set
    prior |-> <<>>,           \* relevant_schema loaded from the thread state
    atIntent |-> <<"unset">>, \* the state's schema context when unified_intent returned
    searchPath |-> "none",    \* "skipped" | "performed" | "failed" inside schema_search
    found |-> <<>>,           \* tables the search itself found (after FK expansion)
    retained |-> <<>>,        \* tables the scoring retained, before FK expansion
    searchKeywords |-> {},    \* keyword hits of the message of a search that failed
    lastValidationError |-> NoError, \* error text of the failed validation under repair
    lastInvalidSql |-> NoSql ]       \* the statement it rejected (both cleared by a new fix)

NoResult == [checked |-> FALSE, errors |-> <<>>]

\* no call of the static validator is in progress
ValidateIdle ==
  /\ vsql = NoSql
  /\ vresult = NoResult

\* the job manager right after construction
JobsIdle ==
  /\ tasks = <<>>
  /\ activeJobs = <<>>

\* no QueryPipeline object exists and nothing is cached
CacheIdle ==
  /\ runs = <<>>
  /\ nodeSets = <<>>
  /\ pipelineCache = <<>>

\* no canonical query is being processed
CanonIdle ==
  /\ cquery = <<>>
  /\ enforced = <<>>
  /\ compiled = <<>>

\* no pipeline run takes part in the behaviour
PipelineIdle ==
  /\ node = "idle"
  /\ state = InitialState(CHOOSE prev \in PreviousStates : ~prev.exists)
  /\ proc = InitialProc(CHOOSE prev \in PreviousStates : ~prev.exists)
  /\ hist = InitialHist

\* every part of the system other than the named one is at rest
RepairIdle ==
  /\ rstate = <<>>
  /\ rview = <<>>

SandboxIdle ==
  /\ checked_sql = <<>>
  /\ sandbox_sql = <<>>

RouteIdle ==
  /\ analysed = <<>>
  /\ routed = <<>>

EmbIdle ==
  /\ schemaVersion = 0
  /\ embCache = <<>>
  /\ readers = <<>>

SearchIdle ==
  /\ sinput = <<>>
  /\ sretained = <<>>

\* no call of process() yet, no thread saved
IdleTurn ==
  [pc |-> "idle", n |-> 0, given |-> 0, thread_id |-> 0, previous_query |-> <<>>,
   last_canonical_query |-> <<>>, primary_intent |-> "", is_refinement |-> FALSE,
   before |-> <<>>, final_node |-> "none", saved |-> FALSE]

ThreadsIdle ==
  /\ threadStates = <<>>
  /\ turn = IdleTurn

EventsIdle ==
  /\ eventBuffers = <<>>
  /\ eventsSent = [c \in {"conv_a", "conv_b"} |-> 0]

Idle(component) ==
  /\ IF component \in {"pipeline", "validate"} THEN TRUE ELSE PipelineIdle
  /\ IF component = "validate" THEN TRUE ELSE ValidateIdle
  /\ IF component = "jobs" THEN TRUE ELSE JobsIdle
  /\ IF component = "cache" THEN TRUE ELSE CacheIdle
  /\ IF component = "canon" THEN TRUE ELSE CanonIdle
  /\ IF component = "repair" THEN TRUE ELSE RepairIdle
  /\ IF component = "sandbox" THEN TRUE ELSE SandboxIdle
  /\ IF component = "route" THEN TRUE ELSE RouteIdle
  /\ IF component = "emb" THEN TRUE ELSE EmbIdle
  /\ IF component = "search" THEN TRUE ELSE SearchIdle
  /\ IF component = "threads" THEN TRUE ELSE ThreadsIdle
  /\ IF component = "events" THEN TRUE ELSE EventsIdle

Init ==
  /\ node = "load_config"
  /\ \E prev \in PreviousStates :
       /\ state = InitialState(prev)
       /\ proc = InitialProc(prev)
  /\ hist = [InitialHist EXCEPT !.prior = state.relevant_schema]
  /\ Idle("pipeline")

Ran(n) == [hist EXCEPT !.executed = @ \cup {n}]

\* "not state.get('generated_sql')"
SqlMissing(sql) == sql = NoSql \/ sql = <<>>

(***************************************************************************)
(* Conditional edges of the graph (query_pipeline.py)                      *)
(***************************************************************************)
_check_refinement_path(st) ==
  IF st.intent.needs_schema_search \/ st.intent.new_entities \/ st.relevant_schema = <<>>
  THEN "schema_search" ELSE "query_builder"

\* variant: the gate requires both conditions
IntentGate_Both(route_to, is_database_path) == route_to = "none" /\ ~is_database_path

\* the gate that sends non-database intents to a direct response
IntentGate(route_to, is_database_path) == route_to = "none" \/ ~is_database_path

\* variant: the shortcut does not ask for a table list
HighConfidenceShortcut_AnyTables(confidence, needs_search, required_tables) ==
  confidence >= 90 /\ ~needs_search

\* the high-confidence shortcut test (confidence is in hundredths)
HighConfidenceShortcut(confidence, needs_search, required_tables) ==
  confidence >= 90 /\ ~needs_search /\ required_tables # <<>>

_check_unified_intent(st) ==
  IF st.error # NoError THEN "error_handler"
  ELSE IF IntentGate(st.intent.route_to,
                     st.intent.primary_intent \in {"database_query", "correction"})
  THEN (IF st.intent.primary_intent = "data_guide" THEN "data_guide_responder"
        ELSE IF st.is_ambiguous THEN "clarification_responder"
        ELSE "guardrail_responder")
  ELSE IF /\ HighConfidenceShortcut(st.intent.confidence, st.intent.needs_schema_search,
                                    st.intent.required_tables)
          /\ (~st.is_refinement \/ ~st.intent.new_entities)
  THEN "query_builder"
  ELSE IF st.is_refinement THEN _check_refinement_path(st)
  ELSE "schema_search"

_check_schema_match(st) == IF st.no_match THEN "no_match_responder" ELSE "query_builder"

\* variant: a connection failure is routed like any validation failure
_check_schema_validation_NoBypass(st) ==
  IF SqlMissing(st.generated_sql) THEN "response_composer"
  ELSE IF st.error # NoError \/ st.validation_success = "false" THEN "sql_corrector"
  ELSE "response_composer"

_check_schema_validation(st) ==
  IF st.is_connection_error THEN "response_composer"
  ELSE IF SqlMissing(st.generated_sql) THEN "response_composer"
  ELSE IF st.error # NoError \/ st.validation_success = "false" THEN "sql_corrector"
  ELSE "response_composer"

_check_correction_result(st) ==
  IF st.error # NoError
  THEN (IF st.correction_iteration < 3 THEN "native_schema_validator" ELSE "error_handler")
  ELSE "native_schema_validator"

(***************************************************************************)
(* schema_search (agent/nodes/schema.py) and its helpers                   *)
(***************************************************************************)
\* what the embedding search, the keyword match on the message and the run
\* of the node can deliver: vector hits as <<table, 10 * similarity>> in
\* the order returned, keyword hits as a set, or a failure of the search
\* (the embedding provider or the vector store raised; the keywords are
\* those the message would have matched)
SearchInputs ==
  { [failed |-> FALSE, vector |-> <<>>, keywords |-> {}],
    [failed |-> FALSE, vector |-> << <<"orders", 9>> >>, keywords |-> {}],
    [failed |-> FALSE, vector |-> << <<"regions", 6>>, <<"secrets", 4>> >>, keywords |-> {"customers"}],
    [failed |-> TRUE, vector |-> <<>>, keywords |-> {"customers"}] }

\* vector_results: similarity >= 0.5 (target_type == "table" for every hit
\* of the model); a hit counts when its table is in the catalog
FilterVector(v) == SelectSeq(v, LAMBDA r : r[2] >= 5 /\ r[1] \in TableNames)

\* keyword_matches, in catalog order
KeywordMatches(kw) == SelectSeq(AllTables, LAMBDA t : t \in kw)

\* intent_matches: the names of relevant_tables_from_intent found in the catalog
IntentMatches(names) == SelectSeq(names, LAMBDA t : t \in TableNames)

RECURSIVE SumVector(_, _)
SumVector(v, t) ==
  IF v = <<>> THEN 0
  ELSE (IF Head(v)[1] = t THEN Head(v)[2] ELSE 0) + SumVector(Tail(v), t)

CountIn(q, t) == Cardinality({i \in 1..Len(q) : q[i] = t})

\* table_scores[t]: 10 * similarity per vector hit, +15 per keyword match, +25 per intent match
TableScore(t, v, kwm, im) == SumVector(v, t) + 15 * CountIn(kwm, t) + 25 * CountIn(im, t)

\* the keys of table_scores in insertion order
RECURSIVE Dedup(_, _)
Dedup(q, seen) ==
  IF q = <<>> THEN <<>>
  ELSE IF Head(q) \in seen THEN Dedup(Tail(q), seen)
  ELSE <<Head(q)>> \o Dedup(Tail(q), seen \cup {Head(q)})

ScoreKeys(v, kwm, im) == Dedup([i \in 1..Len(v) |-> v[i][1]] \o kwm \o im, {})

\* sorted(table_scores.items(), key=score, reverse=True): stable, descending
RECURSIVE SortByScore(_, _, _, _)
SortByScore(keys, v, kwm, im) ==
  IF keys = <<>> THEN <<>>
  ELSE LET best == CHOOSE i \in 1..Len(keys) :
                     /\ \A j \in 1..Len(keys) :
                          TableScore(keys[j], v, kwm, im) <= TableScore(keys[i], v, kwm, im)
                     /\ \A j \in 1..(i - 1) :
                          TableScore(keys[j], v, kwm, im) < TableScore(keys[i], v, kwm, im)
           rest == [k \in 1..(Len(keys) - 1) |-> IF k < best THEN keys[k] ELSE keys[k + 1]]
       IN <<keys[best]>> \o SortByScore(rest, v, kwm, im)

Take(q, n) == SubSeq(q, 1, IF Len(q) < n THEN Len(q) ELSE n)

\* BaseNode._expand_with_related_tables: one pass over the relationships
RECURSIVE ExpandLoop(_, _)
ExpandLoop(tables, i) ==
  IF i > Len(Relationships) THEN tables
  ELSE LET src == Relationships[i].sourceTable
           tgt == Relationships[i].targetTable
           in == SeqToSet(tables)
       IN IF src \in in /\ tgt \notin in
          THEN ExpandLoop(IF tgt \in TableNames THEN Append(tables, tgt) ELSE tables, i + 1)
          ELSE IF tgt \in in /\ src \notin in
          THEN ExpandLoop(IF src \in TableNames THEN Append(tables, src) ELSE tables, i + 1)
          ELSE ExpandLoop(tables, i + 1)

_expand_with_related_tables(initial) == IF initial = <<>> THEN <<>> ELSE ExpandLoop(initial, 1)

\* variant: the new tables come first and the previous ones are appended
MergeRelevant_NewFirst(prev, found) ==
  Take(found \o SelectSeq(prev, LAMBDA t : t \notin SeqToSet(found)), 25)

\* refinement merging: previous tables first, new tables appended, cut at 25
MergeRelevant(prev, found) ==
  Take(prev \o SelectSeq(found, LAMBDA t : t \notin SeqToSet(prev)), 25)

\* variant: the fallback never reports no_match
FallbackNoMatch_Never(fallback) == FALSE

\* the no_match flag of the fallback taken when the search raises
FallbackNoMatch(fallback) == fallback = <<>>

\* which way a call of schema_search takes
SearchPath(st, inp) ==
  IF /\ st.relevant_schema # <<>> /\ st.is_refinement
     /\ ~st.needs_schema_search /\ st.relevant_tables_from_intent = <<>>
  THEN "skipped"
  ELSE IF inp.failed THEN "failed" ELSE "performed"

\* variant: the first 10 candidates in the order they were scored
SearchRetained_Unsorted(st, inp) ==
  LET v == FilterVector(inp.vector)
      kwm == KeywordMatches(inp.keywords)
      im == IntentMatches(st.relevant_tables_from_intent)
  IN Take(ScoreKeys(v, kwm, im), 10)

\* the top 10 candidates retained by scoring
SearchRetained(st, inp) ==
  LET v == FilterVector(inp.vector)
      kwm == KeywordMatches(inp.keywords)
      im == IntentMatches(st.relevant_tables_from_intent)
  IN Take(SortByScore(ScoreKeys(v, kwm, im), v, kwm, im), 10)

\* final_relevant_tables after scoring and FK expansion, before merging
SearchFound(st, inp) == _expand_with_related_tables(SearchRetained(st, inp))

\* the update returned by schema_search
schema_search(st, inp) ==
  IF SearchPath(st, inp) = "skipped"
  THEN [relevant_schema |-> st.relevant_schema, no_match |-> FALSE]
  ELSE IF SearchPath(st, inp) = "failed"
  THEN LET fallback == IF st.is_refinement THEN st.relevant_schema ELSE AllTables
       IN [relevant_schema |-> fallback, no_match |-> FallbackNoMatch(fallback)]
  ELSE LET expanded == SearchFound(st, inp)
           final == IF st.is_refinement /\ st.relevant_schema # <<>>
                    THEN MergeRelevant(st.relevant_schema, expanded)
                    ELSE Take(expanded, 25)
       IN IF final = <<>>
          THEN [relevant_schema |-> <<>>, no_match |-> TRUE]
          ELSE [relevant_schema |-> final, no_match |-> FALSE]

(***************************************************************************)
(* LangGraph state update and the nodes before validation                  *)
(***************************************************************************)
EmptyUpdate == <<>>
IsEmptyUpdate(upd) == DOMAIN upd = {}

\* a node's returned dict is merged into the state; queryability_warnings
\* is declared with the operator.add reducer
Merge(st, upd) ==
  [k \in DOMAIN st |->
     IF k \in DOMAIN upd
     THEN (IF k = "queryability_warnings" THEN st[k] \cup upd[k] ELSE upd[k])
     ELSE st[k]]

\* process(): "if 'generated_sql' in state_update: last_generated_sql = ..."
TrackSql(pr, upd) ==
  IF "generated_sql" \in DOMAIN upd
  THEN [pr EXCEPT !.last_generated_sql = upd.generated_sql]
  ELSE pr

DbIntent(p, ref, conf, needs, req, new) ==
  [primary_intent |-> p, route_to |-> "query_builder", is_refinement |-> ref,
   confidence |-> conf, needs_schema_search |-> needs, required_tables |-> req,
   new_entities |-> new, is_ambiguous |-> FALSE]

\* replies of the intent call (IntentStructure), a representative set
IntentReplies ==
  { [primary_intent |-> p, route_to |-> r, is_refinement |-> ref, confidence |-> 0,
     needs_schema_search |-> FALSE, required_tables |-> <<>>, new_entities |-> FALSE,
     is_ambiguous |-> amb] :
       p \in {"greeting", "data_guide", "out_of_scope", "query_explanation"},
       r \in {"none", "query_builder"}, ref \in BOOLEAN, amb \in BOOLEAN }
  \cup
  { [primary_intent |-> p, route_to |-> "none", is_refinement |-> FALSE, confidence |-> 95,
     needs_schema_search |-> FALSE, required_tables |-> <<"orders">>, new_entities |-> FALSE,
     is_ambiguous |-> amb] :
       p \in {"database_query", "correction"}, amb \in BOOLEAN }
  \cup
  { DbIntent("database_query", FALSE, 95, FALSE, <<"orders">>, FALSE),
    DbIntent("database_query", FALSE, 50, TRUE, <<>>, FALSE),
    DbIntent("database_query", FALSE, 95, FALSE, <<>>, FALSE),
    DbIntent("database_query", FALSE, 95, TRUE, <<"orders">>, FALSE),
    DbIntent("database_query", TRUE, 95, FALSE, <<"orders">>, FALSE),
    DbIntent("database_query", TRUE, 95, FALSE, <<"orders">>, TRUE),
    DbIntent("database_query", TRUE, 50, FALSE, <<>>, FALSE),
    DbIntent("correction", TRUE, 50, TRUE, <<>>, TRUE) }

\* the dict stored as state["intent"] when the intent call fails
FallbackIntent ==
  [NoIntent EXCEPT !.primary_intent = "out_of_scope", !.route_to = "none"]

\* variant: the schema context of the previous turn is kept
ResetStaleSchema_Keep(result, is_refinement) == result

\* a new query drops relevant_schema and pinned_schema of the previous turn
ResetStaleSchema(result, is_refinement) ==
  IF is_refinement THEN result
  ELSE [k \in DOMAIN result \cup {"relevant_schema", "pinned_schema"} |->
          IF k \in {"relevant_schema", "pinned_schema"} THEN <<>> ELSE result[k]]

\* the update returned by unified_intent_node; failed when the call
\* raises or returns nothing
unified_intent_node(st, failed, reply) ==
  IF st.error # NoError THEN EmptyUpdate
  ELSE IF failed
  THEN [is_refinement |-> FALSE, intent |-> FallbackIntent, final_response |-> "intent_fallback"]
  ELSE LET base ==
             [intent |-> reply,
              is_refinement |-> reply.is_refinement,
              needs_schema_search |-> reply.needs_schema_search,
              new_entities |-> reply.is_refinement /\ reply.new_entities,
              relevant_tables_from_intent |-> reply.required_tables,
              is_ambiguous |-> reply.is_ambiguous,
              final_response |->
                IF reply.route_to = "none"
                   \/ reply.primary_intent \in {"greeting", "data_guide", "query_explanation", "out_of_scope"}
                THEN "direct_response" ELSE st.final_response]
       IN ResetStaleSchema(base, reply.is_refinement)

\* the update returned by query_builder; outcome is "raised" (the call
\* raised), "none" (no structured reply) or "ok" (a reply carrying sql)
query_builder(st, outcome, sql) ==
  IF st.error # NoError \/ st.no_match THEN EmptyUpdate
  ELSE IF outcome = "raised" THEN [error |-> <<"Query builder raised">>]
  ELSE IF outcome = "none" THEN [error |-> <<"Failed to generate query structure">>]
  ELSE [generated_sql |-> sql]

LlmOutcomes == {"raised", "none", "ok"}

\* the reply paired with a failed intent call (its content is not used)
FallbackReply == CHOOSE r \in IntentReplies : TRUE

LoadConfig ==
  /\ node = "load_config"
  /\ \E ok \in BOOLEAN : node' = IF ok THEN "unified_intent" ELSE "RAISED"
  /\ hist' = Ran("load_config")
  /\ UNCHANGED <<state, proc, offPipeline>>

UnifiedIntent ==
  /\ node = "unified_intent"
  /\ \E failed \in BOOLEAN, reply \in IntentReplies :
       /\ failed => reply = FallbackReply
       /\ state' = Merge(state, unified_intent_node(state, failed, reply))
       /\ node' = _check_unified_intent(state')
  /\ hist' = [Ran("unified_intent") EXCEPT
                !.atIntent = <<state'.relevant_schema, state'.pinned_schema>>]
  /\ UNCHANGED <<proc, offPipeline>>

SchemaSearch ==
  /\ node = "schema_search"
  /\ \E inp \in SearchInputs :
       \E path \in {SearchPath(state, inp)} :
          /\ state' = Merge(state, schema_search(state, inp))
          /\ node' = _check_schema_match(state')
          /\ hist' = [Ran("schema_search") EXCEPT
                        !.emptySearch = IF state'.relevant_schema = <<>> THEN "true" ELSE "false",
                        !.searchPath = path,
                        !.retained = IF path = "performed"
                                     THEN SearchRetained(state, inp) ELSE <<>>,
                        !.searchKeywords = IF path = "failed" THEN inp.keywords ELSE {},
                        !.found = IF path = "performed"
                                  THEN SearchFound(state, inp) ELSE <<>>]
  /\ UNCHANGED <<proc, offPipeline>>

QueryBuilder ==
  /\ node = "query_builder"
  /\ \E outcome \in LlmOutcomes, sql \in SqlTexts \cup {NoSql} :
       /\ outcome # "ok" => sql = NoSql
       /\ \E upd \in {query_builder(state, outcome, sql)} :
             /\ state' = Merge(state, upd)
             /\ proc' = TrackSql(proc, upd)
  /\ node' = "native_schema_validator"
  /\ hist' = Ran("query_builder")
  /\ UNCHANGED offPipeline

(***************************************************************************)
(* Validation (agent/nodes/validator.py)                                   *)
(***************************************************************************)
\* results of running the wrapped statement against the live database
\* "details_error": get_connection_details raised; "unsupported_type":
\* SQLExecutor.execute raised for a dbType it does not know; "conn_error":
\* the connect phase raised; "timeout": wait_for timed out while the
\* statement ran; "sql_error": the database rejected the statement
SandboxOutcomes ==
  {"ok", "sql_error", "conn_error", "details_error", "unsupported_type", "timeout"}

\* variant: a timeout of the statement also counts as a connection failure
HasConnectionMarker_OrTimeout(outcome) == outcome \in {"conn_error", "timeout"}

\* "DATABASE_CONNECTION_ERROR" in str(e): only the connect phase of
\* SQLExecutor prefixes its exception with the marker
HasConnectionMarker(outcome) == outcome = "conn_error"

\* str(e) of the exception, without the marker; that of a timeout is empty
SandboxMessage(outcome) ==
  CASE outcome = "details_error" -> "No credentials found for agent"
    [] outcome = "unsupported_type" -> "Unsupported database type"
    [] outcome = "timeout" -> ""
    [] outcome = "conn_error" -> "connect failed"
    [] OTHER -> "relation does not exist"

\* the line sql_validator_node builds for a failure without the marker:
\* "Sandbox execution failed: " + msg, the prefix then replaced
SandboxErrorText(outcome) ==
  CASE SandboxMessage(outcome) = "No credentials found for agent" ->
         "Database execution error: No credentials found for agent"
    [] SandboxMessage(outcome) = "Unsupported database type" ->
         "Database execution error: Unsupported database type"
    [] SandboxMessage(outcome) = "" -> "Database execution error: "
    [] SandboxMessage(outcome) = "connect failed" ->
         "Database execution error: connect failed"
    [] OTHER -> "Database execution error: relation does not exist"

\* the error of the update returned at once for a failure with the marker
ConnectionErrorText(outcome) ==
  CASE SandboxMessage(outcome) = "No credentials found for agent" ->
         "Database connection error: No credentials found for agent"
    [] SandboxMessage(outcome) = "Unsupported database type" ->
         "Database connection error: Unsupported database type"
    [] SandboxMessage(outcome) = "" -> "Database connection error: "
    [] SandboxMessage(outcome) = "connect failed" ->
         "Database connection error: connect failed"
    [] OTHER -> "Database connection error: relation does not exist"

\* BaseNode._check_queryability_warnings: the entities warned about
_check_queryability_warnings(sql) ==
  {t \in SqlTables(sql) : t \in TableNames /\ ~TableQueryable(t)}
  \cup
  {c \in {"customers.email"} :
     \E r \in SqlColumns(sql) : r = "customers.email" \/ r = "email"}

\* list of the distinct entries of q, in order
Unique(q) == Dedup(q, {})

\* sql_validator_node: static validation, sandbox run, warnings
sql_validator_node(st, outcome) ==
  IF st.error # NoError \/ SqlMissing(st.generated_sql) THEN EmptyUpdate
  ELSE LET sql == st.generated_sql
           result == validate(sql, Parses(sql), ForbiddenFields)
           ran == result = <<>>
       IN IF ran /\ outcome # "ok" /\ HasConnectionMarker(outcome)
          THEN [validation_success |-> "false",
                queryability_warnings |-> {},
                error |-> <<ConnectionErrorText(outcome)>>,
                is_connection_error |-> TRUE]
          ELSE LET all == result
                          \o (IF ran /\ outcome # "ok" THEN <<SandboxErrorText(outcome)>> ELSE <<>>)
                          \o Take(lint_sql(sql), 10)
                   combined == Unique(all)
               IN [validation_success |->
                     IF result = <<>> /\ (~ran \/ outcome = "ok") /\ lint_sql(sql) = <<>>
                     THEN "true" ELSE "false",
                   queryability_warnings |-> _check_queryability_warnings(sql),
                   error |-> combined,
                   is_connection_error |-> FALSE]

\* the schema handed to sqlglot: queryable tables of relevant_schema with
\* their queryable columns; tables left without columns are not entered
SchemaDict(relevant) ==
  [t \in {x \in SeqToSet(relevant) :
            /\ TableQueryable(x) /\ x \notin ForbiddenFields
            /\ \E c \in ColumnsOf(x) : ColumnQueryable(x, c)} |->
     {c \in ColumnsOf(t) : ColumnQueryable(t, c)}]

\* sqlglot qualify_columns raises "Unknown column" for a column qualified
\* with a source table whose columns the schema knows and do not include it;
\* a table the schema does not know is accepted as it is
QualifyErrors(sql, schema) ==
  IF \E c \in SqlColumns(sql) :
        /\ QualifierOf(c) # ""
        /\ QualifierOf(c) \in SqlTables(sql)
        /\ QualifierOf(c) \in DOMAIN schema
        /\ ColumnNameOf(c) \notin schema[QualifierOf(c)]
  THEN <<"Unknown column">> ELSE <<>>

\* the SQLGlot part of native_schema_validator
GlotErrors(sql, relevant) ==
  IF ~Parses(sql) THEN <<"SQL Syntax Error">> ELSE QualifyErrors(sql, SchemaDict(relevant))

\* the update returned by native_schema_validator
native_schema_validator(st, outcome) ==
  IF st.error # NoError \/ SqlMissing(st.generated_sql) THEN EmptyUpdate
  ELSE LET glot == GlotErrors(st.generated_sql, st.relevant_schema)
           vr == sql_validator_node(st, outcome)
           combined == Unique(glot \o vr.error)
       IN [validation_success |-> IF combined = <<>> THEN "true" ELSE "false",
           error |-> combined,
           is_connection_error |-> vr.is_connection_error,
           queryability_warnings |-> vr.queryability_warnings]

\* BaseNode._build_schema_context: the tables shown to the query builder,
\* relevant_schema merged with the intent's tables, expanded by one hop
\* when the intent confidence is below 0.9
ScopeTables(st) ==
  LET search == st.relevant_schema
      intent == SelectSeq(AllTables,
                  LAMBDA t : t \in SeqToSet(st.relevant_tables_from_intent)
                             /\ t \notin SeqToSet(search))
      merged == search \o intent
  IN IF st.pinned_schema # <<>> THEN SeqToSet(st.pinned_schema)
     ELSE SeqToSet(IF merged # <<>> /\ st.intent.confidence < 90
                   THEN _expand_with_related_tables(merged) ELSE merged)

\* the sandbox run takes place: the node is not skipped and the statement
\* passed static validation
SandboxRuns(st) ==
  /\ st.error = NoError
  /\ ~SqlMissing(st.generated_sql)
  /\ validate(st.generated_sql, Parses(st.generated_sql), ForbiddenFields) = <<>>

NativeSchemaValidator ==
  /\ node = "native_schema_validator"
  /\ \E outcome \in SandboxOutcomes :
       /\ SandboxRuns(state) \/ outcome = "ok"
       /\ \E upd \in {native_schema_validator(state, outcome)} :
         \E checked \in {~IsEmptyUpdate(upd)} :
          /\ state' = Merge(state, upd)
          /\ node' = _check_schema_validation(state')
          /\ hist' = [Ran("native_schema_validator") EXCEPT
               !.validations = IF checked THEN @ + 1 ELSE @,
               !.connErrorAt = IF checked /\ state'.is_connection_error /\ @ = -1
                               THEN state'.correction_iteration ELSE @,
               !.validatedSql = IF checked /\ state'.validation_success = "true"
                                THEN state'.generated_sql ELSE @,
               !.validatedScope = IF checked /\ state'.validation_success = "true"
                                  THEN ScopeTables(state') ELSE @,
               !.lastValidationError = IF checked /\ state'.validation_success = "false"
                                       THEN state'.error ELSE @,
               !.lastInvalidSql = IF checked /\ state'.validation_success = "false"
                                  THEN state'.generated_sql ELSE @]
  /\ UNCHANGED <<proc, offPipeline>>

(***************************************************************************)
(* Correction (sql_corrector) and the terminal nodes                       *)
(***************************************************************************)
\* the test that stops the corrector once the retry budget is used up
BudgetExhausted(correction_iteration) == correction_iteration >= 3

\* variant: the proposal is compared with the failed SQL as raw text
IsIdenticalFix_RawEquality(failed_sql, new_sql) == failed_sql = new_sql

\* the "fake fix" test: the proposal equals the failed SQL after normalization
IsIdenticalFix(failed_sql, new_sql) == _normalize_sql(failed_sql) = _normalize_sql(new_sql)

\* BaseNode._calculate_pinned_schema: the catalog entries of the tables
\* extracted from the failed SQL, or of the canonical query's tables when
\* the SQL yields none; <<>> when neither names a catalog table
_calculate_pinned_schema(st) ==
  LET from_sql == IF SqlMissing(st.generated_sql) THEN {} ELSE SqlTables(st.generated_sql)
      used_tables == IF from_sql # {} THEN from_sql ELSE st.canonical_query
  IN SelectSeq(AllTables, LAMBDA t : t \in used_tables)

\* the copy of the state sql_corrector hands to _build_schema_context: the
\* pinned schema replaces the state's own only when it is non-empty
RepairState(st) ==
  LET pinned_schema == _calculate_pinned_schema(st)
  IN IF pinned_schema # <<>> THEN [st EXCEPT !.pinned_schema = pinned_schema] ELSE st

\* the tables _build_schema_context formats: the scope, or the whole
\* catalog when the scope is empty, without the non-queryable tables
SchemaContextTables(st) ==
  LET relevant_tables == ScopeTables(st)
  IN {t \in (IF relevant_tables = {} THEN TableNames ELSE relevant_tables) : TableQueryable(t)}

\* the schema view inside the repair prompt
RepairView(st) == SchemaContextTables(RepairState(st))

\* the update returned by sql_corrector; outcome as for query_builder
sql_corrector(st, outcome, new_sql) ==
  IF BudgetExhausted(st.correction_iteration)
  THEN [error |-> <<"Correction failed after 3 attempt">> \o st.error]
  ELSE IF outcome = "raised" THEN [error |-> <<"SQL corrector raised">>]
  ELSE IF outcome = "none" THEN [error |-> <<"LLM failed to correct SQL">>]
  ELSE IF IsIdenticalFix(st.generated_sql, new_sql)
  THEN [error |-> <<"The correction you provided is identical to the failed SQL">>,
        correction_iteration |-> st.correction_iteration + 1]
  ELSE [generated_sql |-> new_sql,
        correction_iteration |-> st.correction_iteration + 1,
        error |-> NoError]

\* what the invocation did, for the history
CorrectionKind(st, outcome, new_sql) ==
  IF BudgetExhausted(st.correction_iteration) THEN "exhausted"
  ELSE IF outcome # "ok" THEN "llm_failed"
  ELSE IF IsIdenticalFix(st.generated_sql, new_sql) THEN "identical"
  ELSE "accepted"

SqlCorrector ==
  /\ node = "sql_corrector"
  /\ \E outcome \in LlmOutcomes, new_sql \in SqlTexts \cup {NoSql} :
       /\ outcome # "ok" => new_sql = NoSql
       /\ \E upd \in {sql_corrector(state, outcome, new_sql)},
             kind \in {CorrectionKind(state, outcome, new_sql)} :
             /\ state' = Merge(state, upd)
             /\ proc' = TrackSql(proc, upd)
             /\ node' = _check_correction_result(state')
             /\ hist' = [Ran("sql_corrector") EXCEPT
                  !.lastCorrection = kind,
                  !.lastValidationError = IF kind = "accepted" THEN NoError ELSE @,
                  !.lastInvalidSql = IF kind = "accepted" THEN NoSql ELSE @,
                  !.proposalSame = /\ ~BudgetExhausted(state.correction_iteration)
                                   /\ outcome = "ok"
                                   /\ _normalize_sql(state.generated_sql) = _normalize_sql(new_sql),
                  !.correctorAfterConn = @ \/ hist.connErrorAt # -1]
  /\ UNCHANGED offPipeline

\* the updates returned by the terminal nodes
response_composer(st) ==
  [final_response |-> IF SqlMissing(st.generated_sql) THEN "not_able_to_process" ELSE "query_generated"]

error_handler(st) == [final_response |-> "error_message"]

guardrail_responder(st) ==
  [final_response |-> IF st.final_response # "" THEN st.final_response ELSE "guardrail"]

clarification_responder(st) ==
  [final_response |-> IF st.final_response # "" THEN st.final_response ELSE "clarify"]

data_guide_responder(st) ==
  [final_response |-> IF st.final_response # "" THEN st.final_response ELSE "data_guide"]

no_match_responder(st) ==
  [final_response |-> IF st.final_response # "" THEN st.final_response ELSE "no_match",
   error |-> <<"No relevant schema found">>]

TerminalNodes ==
  {"response_composer", "error_handler", "guardrail_responder",
   "clarification_responder", "data_guide_responder", "no_match_responder"}

DirectResponders == {"guardrail_responder", "clarification_responder", "data_guide_responder"}

TerminalUpdate(n, st) ==
  CASE n = "response_composer" -> response_composer(st)
    [] n = "error_handler" -> error_handler(st)
    [] n = "guardrail_responder" -> guardrail_responder(st)
    [] n = "clarification_responder" -> clarification_responder(st)
    [] n = "data_guide_responder" -> data_guide_responder(st)
    [] OTHER -> no_match_responder(st)

\* state_update.get("error") of the terminal node's update
UpdateError(upd) == IF "error" \in DOMAIN upd THEN upd.error ELSE NoError

\* process(): is_success of the audit record
AuditSuccess(node_name, upd) == node_name # "error_handler" /\ UpdateError(upd) = NoError

\* process(): audit update and complete event when a terminal node has run
Complete(pr, node_name, upd) ==
  LET ok == AuditSuccess(node_name, upd)
  IN [pr EXCEPT
        !.completed = TRUE,
        !.final_node = node_name,
        !.is_success = ok,
        !.error_message = IF ok THEN NoError ELSE UpdateError(upd),
        !.has_sql = node_name = "response_composer",
        !.sql = IF node_name = "response_composer" /\ ~SqlMissing(pr.last_generated_sql)
                THEN pr.last_generated_sql ELSE NoSql]

\* the error text a terminal node writes into final_response, which the
\* complete event carries as "response": error_handler embeds state.error
\* (or "Unknown error"), response_composer appends it when there is one
ResponseErrorText(n, st) ==
  IF n = "error_handler"
  THEN (IF st.error = NoError THEN <<"Unknown error">> ELSE st.error)
  ELSE IF n = "response_composer" THEN st.error
  ELSE NoError

Terminal(n) ==
  /\ node = n
  /\ \E upd \in {TerminalUpdate(n, state)} :
        /\ state' = Merge(state, upd)
        /\ proc' = [Complete(proc, n, upd) EXCEPT
                      !.response_error = ResponseErrorText(n, state)]
  /\ node' = "END"
  /\ hist' = Ran(n)
  /\ UNCHANGED offPipeline

ResponseComposer == Terminal("response_composer")
ErrorHandler == Terminal("error_handler")
GuardrailResponder == Terminal("guardrail_responder")
ClarificationResponder == Terminal("clarification_responder")
DataGuideResponder == Terminal("data_guide_responder")
NoMatchResponder == Terminal("no_match_responder")

Next ==
  \/ LoadConfig
  \/ UnifiedIntent
  \/ SchemaSearch
  \/ QueryBuilder
  \/ NativeSchemaValidator
  \/ SqlCorrector
  \/ ResponseComposer
  \/ ErrorHandler
  \/ GuardrailResponder
  \/ ClarificationResponder
  \/ DataGuideResponder
  \/ NoMatchResponder

Spec == Init /\ [][Next]_vars

\* The run is over once the graph reached END or load_config raised.
Halted == node \in {"END", "RAISED"}

NodeNames ==
  {"load_config", "unified_intent", "schema_search", "query_builder",
   "native_schema_validator", "sql_corrector"} \cup TerminalNodes \cup {"END", "RAISED"}

\* The graph runtime moves on to another node.  Every step of Next is such a
\* step, and one is possible exactly while the run is not over.
Advance == ~Halted /\ node' \in NodeNames

\* The event loop keeps driving the graph until the run is over.
FairSpec == Spec /\ WF_node(Advance)

(***************************************************************************)
(* The static validator on its own: every lexeme sequence up to MaxSqlLen  *)
(***************************************************************************)
ValidateLexemes == {"SELECT", "select", "DROP", "id", " ", ";", "--"}

\* lexeme sequences in which no two words touch
SqlInputs ==
  {q \in UNION {[1..n -> ValidateLexemes] : n \in 0..MaxSqlLen} :
     \A i \in 1..(Len(q) - 1) : ~(IsWord(q[i]) /\ IsWord(q[i + 1]))}

InitValidate ==
  /\ node = "validate"
  /\ vsql \in SqlInputs
  /\ vresult = NoResult
  /\ state = InitialState(CHOOSE prev \in PreviousStates : ~prev.exists)
  /\ proc = InitialProc(CHOOSE prev \in PreviousStates : ~prev.exists)
  /\ hist = InitialHist
  /\ Idle("validate")

\* one call of SQLValidator.validate; the parser's verdict is an input
StaticValidate ==
  /\ node = "validate"
  /\ \E parseOk \in BOOLEAN :
       vresult' = [checked |-> TRUE, errors |-> validate(vsql, parseOk, ForbiddenFields)]
  /\ node' = "validated"
  /\ UNCHANGED <<state, proc, hist, vsql, offValidate>>

NextValidate == StaticValidate

SpecValidate == InitValidate /\ [][NextValidate]_vars

(***************************************************************************)
(* QueryJobManager: one asyncio task per submitted query, one registered   *)
(* job per conversation.  submit_job has no await, so it is one step of    *)
(* the event loop; a task's end and its done-callback are separate steps.  *)
(***************************************************************************)
MaxTasks == 4

Conversations == {"conv_a", "conv_b"}

TaskDone(t) == tasks[t].status \in {"finished", "cancelled"}

\* variant: submit_job leaves the previous task alone
CancelOld_Skip(conversation_id) == tasks

\* old_task.cancel() for the registered task of the conversation, unless done
CancelOld(conversation_id) ==
  IF conversation_id \in DOMAIN activeJobs
  THEN LET old_task == activeJobs[conversation_id].task
       IN IF ~TaskDone(old_task)
          THEN [tasks EXCEPT ![old_task].status = "cancelling"]
          ELSE tasks
  ELSE tasks

\* activeJobs with the entry of one conversation replaced
Register(jobs, conversation_id, entry) ==
  [c \in DOMAIN jobs \cup {conversation_id} |->
     IF c = conversation_id THEN entry ELSE jobs[c]]

submit_job(conversation_id) ==
  /\ Len(tasks) < MaxTasks
  /\ tasks' = Append(CancelOld(conversation_id),
                     [conversation |-> conversation_id, status |-> "running", cleaned |-> FALSE])
  /\ activeJobs' = Register(activeJobs, conversation_id,
                            [task |-> Len(tasks) + 1, status |-> "running"])

\* the job coroutine returns (or raises)
TaskFinishes(t) ==
  /\ tasks[t].status = "running"
  /\ tasks' = [tasks EXCEPT ![t].status = "finished"]
  /\ UNCHANGED activeJobs

\* CancelledError reaches the job coroutine at its next await
TaskCancelled(t) ==
  /\ tasks[t].status = "cancelling"
  /\ tasks' = [tasks EXCEPT ![t].status = "cancelled"]
  /\ UNCHANGED activeJobs

\* variant: the callback does not compare the registered task with its own
IsCurrentTask_AnyTask(jobs, c, t) == c \in DOMAIN jobs

\* the callback's test that the registered task is the one that ended
IsCurrentTask(jobs, c, t) == c \in DOMAIN jobs /\ jobs[c].task = t

\* the done-callback of the task
cleanup(t) ==
  /\ TaskDone(t)
  /\ ~tasks[t].cleaned
  /\ tasks' = [tasks EXCEPT ![t].cleaned = TRUE]
  /\ LET c == tasks[t].conversation
     IN activeJobs' = IF IsCurrentTask(activeJobs, c, t)
                      THEN [activeJobs EXCEPT ![c].status = "completed"]
                      ELSE activeJobs

is_running(conversation_id) ==
  conversation_id \in DOMAIN activeJobs /\ activeJobs[conversation_id].status = "running"

InitJobs ==
  /\ JobsIdle
  /\ Idle("jobs")

SubmitJob ==
  /\ \E c \in Conversations : submit_job(c)
  /\ UNCHANGED offJobs

JobEnds ==
  /\ \E t \in DOMAIN tasks : TaskFinishes(t) \/ TaskCancelled(t)
  /\ UNCHANGED offJobs

JobCleanup ==
  /\ \E t \in DOMAIN tasks : cleanup(t)
  /\ UNCHANGED offJobs

NextJobs ==
  \/ SubmitJob
  \/ JobEnds
  \/ JobCleanup

SpecJobs == InitJobs /\ [][NextJobs]_vars

(***************************************************************************)
(* Compiled graphs are cached per agent.  The node methods bound into a    *)
(* compiled graph belong to the QueryGraphNodes object of the pipeline     *)
(* that built it, so every run served from the cache executes on that      *)
(* object.  An LLM client is identified by the run that created it.        *)
(***************************************************************************)
MaxRuns == 2

Agents == {"agent_a", "agent_b"}

RunIds == 1..MaxRuns

NoApp == 0

\* QueryPipeline.__init__: app and nodes are None
NewPipeline(agent) ==
  [pc |-> "new", agent_id |-> agent, app |-> NoApp, nodes |-> NoApp, llmUsed |-> {}]

\* QueryGraphNodes(agent_config): BaseNode.__init__ creates an LLM client
NewNodes(r) == [llm |-> r]

\* _get_or_create_app up to its first await: look the agent up in the cache
CacheLookup(r) ==
  /\ runs[r].pc = "new"
  /\ IF runs[r].agent_id \in DOMAIN pipelineCache
     THEN /\ nodeSets' = Append(nodeSets, NewNodes(r))
          /\ runs' = [runs EXCEPT ![r].pc = "ready",
                                  ![r].app = pipelineCache[runs[r].agent_id],
                                  ![r].nodes = Len(nodeSets) + 1]
     ELSE /\ runs' = [runs EXCEPT ![r].pc = "building"]
          /\ UNCHANGED nodeSets
  /\ UNCHANGED pipelineCache

\* _get_or_create_app after _initialize_nodes: build, compile and cache
BuildAndCache(r) ==
  /\ runs[r].pc = "building"
  /\ nodeSets' = Append(nodeSets, NewNodes(r))
  /\ runs' = [runs EXCEPT ![r].pc = "ready",
                          ![r].app = Len(nodeSets) + 1,
                          ![r].nodes = Len(nodeSets) + 1]
  /\ pipelineCache' =
       [a \in DOMAIN pipelineCache \cup {runs[r].agent_id} |->
          IF a = runs[r].agent_id THEN Len(nodeSets) + 1 ELSE pipelineCache[a]]

\* load_config of the compiled graph: self.llm = get_llm(...) on the bound node set
LoadConfigLlm(r) == [nodeSets EXCEPT ![runs[r].app].llm = r]

RunLoadConfig(r) ==
  /\ runs[r].pc = "ready"
  /\ nodeSets' = LoadConfigLlm(r)
  /\ runs' = [runs EXCEPT ![r].pc = "unified_intent"]
  /\ UNCHANGED pipelineCache

\* _call_llm_with_logging in a later node: reads self.llm of the bound node set
_call_llm_with_logging(r, from, to) ==
  /\ runs[r].pc = from
  /\ runs' = [runs EXCEPT ![r].pc = to,
                          ![r].llmUsed = @ \cup {nodeSets[runs[r].app].llm}]
  /\ UNCHANGED <<nodeSets, pipelineCache>>

InitCache ==
  /\ runs \in [RunIds -> {NewPipeline(a) : a \in Agents}]
  /\ nodeSets = <<>>
  /\ pipelineCache = <<>>
  /\ Idle("cache")

GetOrCreateApp ==
  /\ \E r \in RunIds : CacheLookup(r)
  /\ UNCHANGED offCache

CompileApp ==
  /\ \E r \in RunIds : BuildAndCache(r)
  /\ UNCHANGED offCache

SharedLoadConfig ==
  /\ \E r \in RunIds : RunLoadConfig(r)
  /\ UNCHANGED offCache

SharedLlmCall ==
  /\ \E r \in RunIds :
       \/ _call_llm_with_logging(r, "unified_intent", "query_builder")
       \/ _call_llm_with_logging(r, "query_builder", "done")
  /\ UNCHANGED offCache

NextCache ==
  \/ GetOrCreateApp
  \/ CompileApp
  \/ SharedLoadConfig
  \/ SharedLlmCall

SpecCache == InitCache /\ [][NextCache]_vars

(***************************************************************************)
(* Canonical queries: the queryability enforcer (agent/nodes.py) and the   *)
(* SQL generator (mcp_tools/dialect_translator.py) as pure functions       *)
(***************************************************************************)
MaxJoins == 2
MaxColumns == 2
MaxClauseItems == 1

\* an empty primary_table dictionary
NoTable == <<>>

\* a column reference "qual.col", or the naked name "col" when qual is ""
ColRef(qual, col) == [qual |-> qual, col |-> col]

SeqsUpTo(S, n) == UNION {[1..k -> S] : k \in 0..n}

PrimaryChoices ==
  { NoTable,
    [name |-> "orders", alias |-> ""],
    [name |-> "customers", alias |-> "c"],
    [name |-> "secrets", alias |-> "s"] }

JoinChoices ==
  { [table |-> "customers", alias |-> "c",
     on |-> [left_column |-> ColRef("c", "id"), right_column |-> ColRef("s", "id")]],
    [table |-> "orders", alias |-> "",
     on |-> [left_column |-> ColRef("orders", "id"), right_column |-> ColRef("s", "id")]],
    [table |-> "orders", alias |-> "",
     on |-> [left_column |-> ColRef("orders", "id"), right_column |-> ColRef("c", "id")]],
    [table |-> "secrets", alias |-> "s",
     on |-> [left_column |-> ColRef("s", "id"), right_column |-> ColRef("orders", "id")]] }

ColumnChoices ==
  {ColRef("", "id"), ColRef("", "email"), ColRef("c", "email"), ColRef("x", "id")}
FilterChoices == {ColRef("", "email"), ColRef("s", "id")}
GroupByChoices == {ColRef("x", "id")}
OrderByChoices == {ColRef("c", "email")}

\* the canonical queries the functions are applied to
CanonicalQueries ==
  [primary_table : PrimaryChoices,
   joins : SeqsUpTo(JoinChoices, MaxJoins),
   columns : SeqsUpTo(ColumnChoices, MaxColumns),
   filters : SeqsUpTo(FilterChoices, MaxClauseItems),
   group_by : SeqsUpTo(GroupByChoices, MaxClauseItems),
   order_by : SeqsUpTo(OrderByChoices, MaxClauseItems)]

\* table_queryable.get(name, True)
table_queryable(t) == IF t \in TableNames THEN TableQueryable(t) ELSE TRUE

\* "table.col" is a key of col_queryable
InColMap(t, c) == t \in TableNames /\ c \in ColumnsOf(t)

\* col_queryable.get("table.col", True)
col_queryable(t, c) == IF InColMap(t, c) THEN ColumnQueryable(t, c) ELSE TRUE

\* primary_table.get("name", "")
PrimaryName(q) == IF q.primary_table = NoTable THEN "" ELSE q.primary_table.name

\* word in alias_to_table: the aliases declared by the query
HasAlias(q, a) ==
  /\ a # ""
  /\ \/ q.primary_table # NoTable /\ q.primary_table.alias = a
     \/ \E i \in 1..Len(q.joins) : q.joins[i].alias = a

\* alias_to_table.get(a, a): joins are entered after the primary table and
\* in order, so the last declaration of an alias wins
alias_to_table(q, a) ==
  LET js == {i \in 1..Len(q.joins) : q.joins[i].alias = a}
  IN IF ~HasAlias(q, a) THEN a
     ELSE IF js # {} THEN q.joins[CHOOSE i \in js : \A k \in js : k <= i].table
     ELSE q.primary_table.name

\* step 3: a non-queryable primary table is replaced by the first queryable
\* join, which leaves the join list; with no queryable join it stays
SwapPrimary(q) ==
  LET qs == {i \in 1..Len(q.joins) : table_queryable(q.joins[i].table)}
  IN IF table_queryable(PrimaryName(q)) \/ qs = {} THEN q
     ELSE LET k == CHOOSE i \in qs : \A m \in qs : i <= m
          IN [q EXCEPT !.primary_table =
                         [name |-> q.joins[k].table, alias |-> q.joins[k].alias],
                       !.joins = [i \in 1..(Len(q.joins) - 1) |->
                                    IF i < k THEN q.joins[i] ELSE q.joins[i + 1]]]

JoinQueryable(j) == table_queryable(j.table)

\* step 4: the joins kept
KeptJoins(q) == SelectSeq(SwapPrimary(q).joins, JoinQueryable)

\* removed_tables after steps 3 and 4
RemovedTables(q) ==
  (IF table_queryable(PrimaryName(q)) THEN {} ELSE {PrimaryName(q)})
    \cup {SwapPrimary(q).joins[i].table : i \in
            {k \in 1..Len(SwapPrimary(q).joins) : ~JoinQueryable(SwapPrimary(q).joins[k])}}

\* is_restricted(expression) inside _enforce_queryability of query q:
\* "", "table_removed" or "column_restricted".  p_name is the name of the
\* primary table the query came in with; the joins are the kept ones.
is_restricted(q, e) ==
  IF e.qual # ""
  THEN IF alias_to_table(q, e.qual) \in RemovedTables(q) THEN "table_removed"
       ELSE IF ~col_queryable(alias_to_table(q, e.qual), e.col) THEN "column_restricted"
       ELSE ""
  ELSE IF HasAlias(q, e.col) /\ alias_to_table(q, e.col) \in RemovedTables(q)
       THEN "table_removed"
       ELSE IF LET pt_real == alias_to_table(q, PrimaryName(q))
               IN InColMap(pt_real, e.col) /\ ~ColumnQueryable(pt_real, e.col)
       THEN "column_restricted"
       ELSE IF \E i \in 1..Len(KeptJoins(q)) :
                 /\ InColMap(KeptJoins(q)[i].table, e.col)
                 /\ ~ColumnQueryable(KeptJoins(q)[i].table, e.col)
       THEN "column_restricted"
       ELSE ""

\* steps 5 to 7: the items of a clause that are kept
KeepUnrestricted(q, items) ==
  LET Unrestricted(e) == is_restricted(q, e) = ""
  IN SelectSeq(items, Unrestricted)

\* _enforce_queryability(canonical_query, schema): the filtered query and
\* the warnings (entities warned about)
_enforce_queryability(q) ==
  [query |->
     [primary_table |-> SwapPrimary(q).primary_table,
      joins |-> KeptJoins(q),
      columns |-> KeepUnrestricted(q, q.columns),
      filters |-> KeepUnrestricted(q, q.filters),
      group_by |-> KeepUnrestricted(q, q.group_by),
      order_by |-> KeepUnrestricted(q, q.order_by)],
   warnings |->
     {<<"non_queryable_table", t>> : t \in RemovedTables(q)}
       \cup {<<"non_queryable_column", q.columns[i]>> : i \in
               {k \in 1..Len(q.columns) : is_restricted(q, q.columns[k]) = "column_restricted"}}]

\* the keys of the alias map of generate_sql: alias, or name without alias
TableKey(name, alias) == IF alias # "" THEN alias ELSE name

SqlaTables(q) ==
  {TableKey(q.primary_table.name, q.primary_table.alias)}
    \cup {TableKey(q.joins[i].table, q.joins[i].alias) : i \in 1..Len(q.joins)}

\* _resolve_sqla_column(col_ref, tables): a column of a declared table, a
\* column of a table made up on the spot for an unknown qualifier, or a bare
\* column; none of the three raises
_resolve_sqla_column(e, tbls) ==
  IF e.qual = "" THEN [table |-> "", column |-> e.col, declared |-> TRUE]
  ELSE [table |-> e.qual, column |-> e.col, declared |-> e.qual \in tbls]

\* j.get("type", "INNER").upper()
JoinType(j) == IF "type" \in DOMAIN j THEN Upper(j.type) ELSE "INNER"

\* the keyword SQLAlchemy renders for the call chosen by the join type:
\* outerjoin for LEFT, join(isouter=True, full=False) for RIGHT,
\* outerjoin(full=True) for FULL, join otherwise
JoinKeyword(j_type) ==
  CASE j_type = "LEFT" -> "LEFT OUTER JOIN"
    [] j_type = "RIGHT" -> "LEFT OUTER JOIN"
    [] j_type = "FULL" -> "FULL OUTER JOIN"
    [] OTHER -> "JOIN"

\* generate_sql(canonical_query): a ValueError for a missing primary table,
\* otherwise the statement compiled from the resolved columns (the literal
\* 1 is selected when the query has no columns)
generate_sql(q) ==
  IF q.primary_table = NoTable
  THEN [error |-> "Canonical query missing 'primary_table'", sql |-> <<>>]
  ELSE LET Resolve(e) == _resolve_sqla_column(e, SqlaTables(q))
       IN [error |-> "",
           sql |-> << [select |-> IF q.columns = <<>>
                                  THEN <<[table |-> "", column |-> "1", declared |-> TRUE]>>
                                  ELSE [i \in 1..Len(q.columns) |-> Resolve(q.columns[i])],
                       from |-> TableKey(q.primary_table.name, q.primary_table.alias),
                       joins |-> [i \in 1..Len(q.joins) |->
                                    [keyword |-> JoinKeyword(JoinType(q.joins[i])),
                                     table |-> TableKey(q.joins[i].table, q.joins[i].alias),
                                     left |-> Resolve(q.joins[i].on.left_column),
                                     right |-> Resolve(q.joins[i].on.right_column)]],
                       where |-> [i \in 1..Len(q.filters) |-> Resolve(q.filters[i])],
                       group_by |-> [i \in 1..Len(q.group_by) |-> Resolve(q.group_by[i])],
                       order_by |-> [i \in 1..Len(q.order_by) |-> Resolve(q.order_by[i])]] >>]

InitCanon ==
  /\ cquery \in CanonicalQueries
  /\ enforced = <<>>
  /\ compiled = <<>>
  /\ Idle("canon")

\* the enforcer applied to the query
EnforceOnce ==
  /\ enforced = <<>>
  /\ enforced' = <<_enforce_queryability(cquery)>>
  /\ UNCHANGED <<cquery, compiled, offCanon>>

\* the enforcer applied to its own result
EnforceAgain ==
  /\ Len(enforced) = 1
  /\ enforced' = Append(enforced, _enforce_queryability(enforced[1].query))
  /\ UNCHANGED <<cquery, compiled, offCanon>>

\* the SQL generator applied to the query
GenerateSql ==
  /\ compiled = <<>>
  /\ compiled' = <<generate_sql(cquery)>>
  /\ UNCHANGED <<cquery, enforced, offCanon>>

NextCanon ==
  \/ EnforceOnce
  \/ EnforceAgain
  \/ GenerateSql

SpecCanon == InitCanon /\ [][NextCanon]_vars

\* joins that declare their kind (or leave it out), onto the primary table orders
TypedJoinChoices ==
  { [table |-> t[1], alias |-> t[2], type |-> kind,
     on |-> [left_column |-> ColRef("orders", "id"), right_column |-> ColRef(t[2], "id")]] :
      t \in {<<"customers", "c">>, <<"regions", "r">>},
      kind \in {"INNER", "LEFT", "RIGHT", "FULL", "left"} }
  \cup
  { [table |-> "customers", alias |-> "c",
     on |-> [left_column |-> ColRef("orders", "id"), right_column |-> ColRef("c", "id")]] }

TypedJoinQueries ==
  [primary_table : {[name |-> "orders", alias |-> ""]},
   joins : SeqsUpTo(TypedJoinChoices, MaxJoins),
   columns : {<<ColRef("orders", "id")>>},
   filters : {<<>>}, group_by : {<<>>}, order_by : {<<>>}]

InitJoins ==
  /\ cquery \in TypedJoinQueries
  /\ enforced = <<>>
  /\ compiled = <<>>
  /\ Idle("canon")

NextJoins == GenerateSql

SpecJoins == InitJoins /\ [][NextJoins]_vars

(***************************************************************************)
(* The schema view of the repair prompt (sql_corrector, pure functions)    *)
(***************************************************************************)
\* the table lists (primary table and joins) the canonical query can carry
\* for a statement: none, the tables the statement names, or orders
CanonicalTables(sql) == {{}, SqlTables(sql), {"orders"}}

\* states in which sql_corrector is entered: a statement that failed
\* validation, the canonical query of the builder's reply, the scope left
\* by the search and the intent, the pinned schema of the saved thread
FailedStates ==
  { [k \in DOMAIN InitialState(prev) \cup {"canonical_query"} |->
       CASE k = "generated_sql" -> sql
         [] k = "canonical_query" -> tables
         [] k = "relevant_schema" -> found
         [] k = "relevant_tables_from_intent" -> required
         [] k = "intent" -> [NoIntent EXCEPT !.primary_intent = "database_query",
                                             !.confidence = confidence,
                                             !.required_tables = required]
         [] k = "validation_success" -> "false"
         [] k = "error" -> <<"Database execution error: relation does not exist">>
         [] OTHER -> InitialState(prev)[k]] :
      prev \in {p \in PreviousStates : p.relevant_schema \in {<<>>, <<"orders", "customers">>}},
      sql \in SqlTexts,
      tables \in UNION {CanonicalTables(q) : q \in SqlTexts},
      found \in {<<>>, <<"orders">>, <<"orders", "customers">>},
      required \in {<<>>, <<"customers">>},
      confidence \in {50, 95} }

InitRepair ==
  /\ rstate \in {st \in FailedStates : st.canonical_query \in CanonicalTables(st.generated_sql)}
  /\ rview = <<>>
  /\ Idle("repair")

\* sql_corrector computes the pinned schema and builds the schema context
BuildRepairContext ==
  /\ rview = <<>>
  /\ rview' = <<RepairView(rstate)>>
  /\ UNCHANGED <<rstate, offRepair>>

NextRepair == BuildRepairContext

SpecRepair == InitRepair /\ [][NextRepair]_vars

(***************************************************************************)
(* The statement of the sandbox check (sql_validator_node, pure functions) *)
(***************************************************************************)
\* "limit" in w.lower(), for the lexemes of the statements below
HasLimitText(w) == Lower(w) \in {"limit", "credit_limit", "'limit'"}

\* "limit" in sql.lower()
ContainsLimit(sql) == \E i \in 1..Len(sql) : HasLimitText(sql[i])

\* f"SELECT * FROM ({clean_sql}) AS sandbox_check LIMIT 0"
WrapLimitZero(clean_sql) ==
  <<"SELECT", " ", "*", " ", "FROM", " ", "(">> \o clean_sql
    \o <<")", " ", "AS", " ", "sandbox_check", " ", "LIMIT", " ", "0">>

\* the statement passed to executor.execute
SandboxStatement(sql) ==
  LET clean_sql == RStripSemi(Strip(sql))
  IN IF ~ContainsLimit(sql) THEN WrapLimitZero(clean_sql) ELSE clean_sql

\* SELECT statements over the catalog, with or without a LIMIT clause, a
\* column or a string literal spelled with "limit", a trailing semicolon
SandboxInputs ==
  { <<select, " ", column, " ", from, " ", table>> \o clause \o semi :
      select \in {"SELECT", "select"},
      column \in {"id", "credit_limit", "'limit'"},
      from \in {"FROM", "from"},
      table \in {"orders", "customers"},
      clause \in {<<>>, <<" ", "LIMIT", " ", "5">>, <<" ", "limit", " ", "5">>,
                  <<" ", "LIMIT", " ", "0">>},
      semi \in {<<>>, <<";">>} }

\* the sandbox runs only for statements the static validator accepts
InitSandbox ==
  /\ checked_sql \in {<<q>> : q \in {sql \in SandboxInputs : validate(sql, TRUE, ForbiddenFields) = <<>>}}
  /\ sandbox_sql = <<>>
  /\ Idle("sandbox")

PrepareSandbox ==
  /\ sandbox_sql = <<>>
  /\ sandbox_sql' = <<SandboxStatement(checked_sql[1])>>
  /\ UNCHANGED <<checked_sql, offSandbox>>

NextSandbox == PrepareSandbox

SpecSandbox == InitSandbox /\ [][NextSandbox]_vars

(***************************************************************************)
(* Routing after the intent analysis (unified_intent_node followed by the  *)
(* conditional edge _check_unified_intent, pure functions)                 *)
(***************************************************************************)
\* replies of the intent call on the database path: every combination of
\* the fields the routing reads, with confidences around the 0.9 threshold
RouteReplies ==
  { DbIntent(p, ref, conf, needs, req, new) :
      p \in {"database_query", "correction"}, ref \in BOOLEAN,
      conf \in {50, 89, 90, 95}, needs \in BOOLEAN,
      req \in {<<>>, <<"orders">>}, new \in BOOLEAN }
  \cup IntentReplies

InitRoute ==
  /\ analysed \in {<<[prev |-> prev, reply |-> reply]>> :
                     prev \in PreviousStates, reply \in RouteReplies}
  /\ routed = <<>>
  /\ Idle("route")

\* the intent node stores the reply in the state, the edge picks the next node
AnalyseAndRoute ==
  /\ routed = <<>>
  /\ \E st \in {InitialState(analysed[1].prev)} :
       \E after \in {Merge(st, unified_intent_node(st, FALSE, analysed[1].reply))} :
         routed' = <<[state |-> after, next |-> _check_unified_intent(after),
                      search |-> "none"]>>
  /\ UNCHANGED <<analysed, offRoute>>

\* the schema_search node runs when the edge chose it; the second entry of
\* routed holds the state it leaves, the node chosen next and the way it took
SearchAfterRouting ==
  /\ Len(routed) = 1
  /\ routed[1].next = "schema_search"
  /\ \E inp \in SearchInputs :
       \E after \in {Merge(routed[1].state, schema_search(routed[1].state, inp))} :
         routed' = Append(routed, [state |-> after, next |-> _check_schema_match(after),
                                   search |-> SearchPath(routed[1].state, inp)])
  /\ UNCHANGED <<analysed, offRoute>>

NextRoute == AnalyseAndRoute \/ SearchAfterRouting

SpecRoute == InitRoute /\ [][NextRoute]_vars

(***************************************************************************)
(* EmbeddingCache (services/embedding_cache.py): the entry of one agent.   *)
(* get_schema_embeddings checks the cache, awaits the system database on   *)
(* a miss and stores what it got; invalidate deletes the entry.  The       *)
(* schema cache of cache_service / get_agent_enriched_metadata is filled   *)
(* and invalidated in the same three steps.                                *)
(***************************************************************************)
MaxEdits == 2
MaxReaders == 2

Readers == 1..MaxReaders

NoData == -1

\* a call that has not started, or has returned
IdleReader == [pc |-> "idle", fetched |-> NoData, got |-> NoData, hit |-> FALSE, current |-> NoData]

InitEmb ==
  /\ schemaVersion = 0
  /\ embCache = <<>>
  /\ readers = [r \in Readers |-> IdleReader]
  /\ Idle("emb")

\* agent_id in self.cache and age_seconds < self.ttl_seconds
CacheHit == embCache # <<>> /\ ~embCache[1].expired

\* the call starts: a hit returns the cached data, a miss goes on to await
\* system_db.get_schema_embeddings
GetSchemaEmbeddings(r) ==
  /\ readers[r].pc \in {"idle", "done"}
  /\ readers' = [readers EXCEPT ![r] =
       IF CacheHit
       THEN [pc |-> "done", fetched |-> NoData, got |-> embCache[1].data, hit |-> TRUE,
             current |-> schemaVersion]
       ELSE [IdleReader EXCEPT !.pc = "fetching"]]
  /\ UNCHANGED <<schemaVersion, embCache, offEmb>>

\* the system database answers the awaited query with the data it holds now
FetchFromDatabase(r) ==
  /\ readers[r].pc = "fetching"
  /\ readers' = [readers EXCEPT ![r].pc = "fetched", ![r].fetched = schemaVersion]
  /\ UNCHANGED <<schemaVersion, embCache, offEmb>>

\* the call resumes after the await: it stores what it fetched and returns it
StoreInCache(r) ==
  /\ readers[r].pc = "fetched"
  /\ embCache' = <<[data |-> readers[r].fetched, expired |-> FALSE]>>
  /\ readers' = [readers EXCEPT ![r] =
       [pc |-> "done", fetched |-> NoData, got |-> readers[r].fetched, hit |-> FALSE,
        current |-> schemaVersion]]
  /\ UNCHANGED <<schemaVersion, offEmb>>

\* the schema is edited and the entry invalidated: invalidate(agent_id)
EditAndInvalidate ==
  /\ schemaVersion < MaxEdits
  /\ schemaVersion' = schemaVersion + 1
  /\ embCache' = <<>>
  /\ UNCHANGED <<readers, offEmb>>

\* time passes: the entry grows older than ttl_seconds
Expire ==
  /\ embCache # <<>>
  /\ ~embCache[1].expired
  /\ embCache' = <<[embCache[1] EXCEPT !.expired = TRUE]>>
  /\ UNCHANGED <<schemaVersion, readers, offEmb>>

NextEmb ==
  \/ \E r \in Readers : GetSchemaEmbeddings(r)
  \/ \E r \in Readers : FetchFromDatabase(r)
  \/ \E r \in Readers : StoreInCache(r)
  \/ EditAndInvalidate
  \/ Expire

SpecEmb == InitEmb /\ [][NextEmb]_vars

(***************************************************************************)
(* The SQL-text queryability check applied to a compiled statement         *)
(***************************************************************************)
\* _extract_table_references on the compiled text: get_real_name() of
\* "name AS alias" is the name
CompiledTableRefs(q) ==
  {q.primary_table.name} \cup {q.joins[i].table : i \in 1..Len(q.joins)}

\* _extract_column_references on the compiled text: every identifier as it
\* is written, "qualifier.column" with the alias as qualifier, a bare
\* column, or the name of a table that has no alias
CompiledColumnRefs(q, stmt) ==
  LET Written(r) == ColRef(r.table, r.column)
      Of(items) == {Written(items[i]) : i \in 1..Len(items)}
  IN Of(stmt.select) \cup Of(stmt.where) \cup Of(stmt.group_by) \cup Of(stmt.order_by)
       \cup {Written(stmt.joins[i].left) : i \in 1..Len(stmt.joins)}
       \cup {Written(stmt.joins[i].right) : i \in 1..Len(stmt.joins)}
       \cup {ColRef("", t) : t \in {n \in CompiledTableRefs(q) : n \in SqlaTables(q)}}

\* _check_queryability_warnings(sql, schema) for the statement compiled
\* from q: a table is warned about when its name is among the table
\* references, a column when "table.column" or its bare name is among the
\* column references
CheckCompiledSql(q, stmt) ==
  {<<"non_queryable_table", t>> :
     t \in {n \in TableNames : ~TableQueryable(n) /\ n \in CompiledTableRefs(q)}}
  \cup
  {<<"non_queryable_column", ColRef(tc[1], tc[2])>> :
     tc \in {p \in TableNames \X {"id", "email"} :
               /\ p[2] \in ColumnsOf(p[1])
               /\ ~ColumnQueryable(p[1], p[2])
               /\ \/ ColRef(p[1], p[2]) \in CompiledColumnRefs(q, stmt)
                  \/ ColRef("", p[2]) \in CompiledColumnRefs(q, stmt)}}

(***************************************************************************)
(* Scoring of the relevance search (schema_search steps 1 to 3, pure       *)
(* functions): more candidates than the 10 that are retained               *)
(***************************************************************************)
\* vector hits <<table, 10 * similarity>> in the order returned
VectorChoices ==
  { <<>>,
    << <<"orders", 9>>, <<"orders", 8>>, <<"secrets", 4>>, <<"unknown", 9>> >>,
    [i \in 1..12 |-> <<ExtraTables[i], 5 + (i % 5)>>],
    [i \in 1..12 |-> <<ExtraTables[13 - i], 5 + (i % 5)>>] \o << <<"t05", 9>>, <<"regions", 6>> >> }

KeywordChoices ==
  { {}, {"customers"}, {"customers", "t05", "t20"},
    {ExtraTables[i] : i \in 1..11} }

IntentTableChoices ==
  { <<>>, <<"orders">>, <<"regions", "t30", "missing">>, <<"t06", "t06">> }

InitSearch ==
  /\ sinput \in {<<[vector |-> v, keywords |-> k, relevant_tables_from_intent |-> names]>> :
                   v \in VectorChoices, k \in KeywordChoices, names \in IntentTableChoices}
  /\ sretained = <<>>
  /\ Idle("search")

\* schema_search scores the candidates and keeps the top 10
ScoreAndRetain ==
  /\ sretained = <<>>
  /\ sretained' = <<SearchRetained(sinput[1], sinput[1])>>
  /\ UNCHANGED <<sinput, offSearch>>

NextSearch == ScoreAndRetain

SpecSearch == InitSearch /\ [][NextSearch]_vars

\* the state handed to save_thread_state when a responder completes: the
\* tracked SQL, relevant_schema and pinned_schema (each tracked value equals
\* the state's, the updates being merged key by key)
SavedThreadState(pr, st) ==
  [generated_sql |-> pr.last_generated_sql,
   relevant_schema |-> st.relevant_schema,
   pinned_schema |-> st.pinned_schema]

(***************************************************************************)
(* Thread bookkeeping of process(): loading the saved state, the thread    *)
(* fork and save_thread_state (query_pipeline.py)                          *)
(***************************************************************************)
MaxTurns == 3

\* thread ids are the positions of threadStates; an entry is <<>> while
\* nothing was saved under the id, else <<the saved state>>
NewThreadId(store) == Len(store) + 1

\* the classifications of the intent stage that matter for the fork
TurnIntents ==
  { [primary_intent |-> p, is_refinement |-> ref] :
      p \in {"greeting", "database_query", "correction"}, ref \in BOOLEAN }

\* where a turn can end and whether query_builder returned a canonical query
TurnOutcomes(primary_intent) ==
  IF primary_intent \in {"database_query", "correction"}
  THEN { [node |-> "response_composer", built |-> TRUE],
         [node |-> "response_composer", built |-> FALSE],
         [node |-> "no_match_responder", built |-> FALSE],
         [node |-> "error_handler", built |-> TRUE],
         [node |-> "guardrail_responder", built |-> FALSE] }
  ELSE { [node |-> "guardrail_responder", built |-> FALSE],
         [node |-> "data_guide_responder", built |-> FALSE] }

\* the nodes after which process() calls save_thread_state
SavingNodes ==
  {"response_composer", "guardrail_responder", "no_match_responder",
   "clarification_responder", "data_guide_responder"}

\* the test that replaces thread_id by a fresh id after unified_intent
ForksThread(primary_intent, is_refinement, previous_query) ==
  /\ primary_intent = "database_query" /\ ~is_refinement
  /\ previous_query # <<>>

InitThreads ==
  /\ ThreadsIdle
  /\ Idle("threads")

\* process() is called with no thread id (given = 0) or with the id of a
\* thread; the saved state is loaded and the tracked values are seeded
ProcessStart ==
  /\ turn.pc \in {"idle", "done"}
  /\ turn.n < MaxTurns
  /\ \E given \in {0} \cup DOMAIN threadStates :
       LET previous_state == IF given = 0 THEN <<>> ELSE threadStates[given]
           previous_query == IF previous_state = <<>> THEN <<>>
                             ELSE previous_state[1].canonical_query
       IN /\ threadStates' = IF given = 0 THEN Append(threadStates, <<>>) ELSE threadStates
          /\ turn' = [IdleTurn EXCEPT
                        !.pc = "started", !.n = turn.n + 1, !.given = given,
                        !.thread_id = IF given = 0 THEN NewThreadId(threadStates) ELSE given,
                        !.previous_query = previous_query,
                        !.last_canonical_query = previous_query,
                        !.before = threadStates']
  /\ UNCHANGED offThreads

\* the update of unified_intent arrives: the fork is decided
IntentSeen ==
  /\ turn.pc = "started"
  /\ \E reply \in TurnIntents :
       IF ForksThread(reply.primary_intent, reply.is_refinement, turn.previous_query)
       THEN /\ threadStates' = Append(threadStates, <<>>)
            /\ turn' = [turn EXCEPT !.pc = "analysed",
                                    !.primary_intent = reply.primary_intent,
                                    !.is_refinement = reply.is_refinement,
                                    !.thread_id = NewThreadId(threadStates)]
       ELSE /\ threadStates' = threadStates
            /\ turn' = [turn EXCEPT !.pc = "analysed",
                                    !.primary_intent = reply.primary_intent,
                                    !.is_refinement = reply.is_refinement]
  /\ UNCHANGED offThreads

\* the last node of the turn completes: the thread state is saved under the
\* current thread_id, unless the node is error_handler
TurnCompletes ==
  /\ turn.pc = "analysed"
  /\ \E outcome \in TurnOutcomes(turn.primary_intent) :
       LET canonical == IF outcome.built THEN <<turn.n>> ELSE turn.last_canonical_query
           saves == outcome.node \in SavingNodes
       IN /\ turn' = [turn EXCEPT !.pc = "done", !.last_canonical_query = canonical,
                                  !.final_node = outcome.node, !.saved = saves]
          /\ threadStates' =
               IF saves
               THEN [threadStates EXCEPT ![turn.thread_id] =
                       <<[user_message |-> turn.n, canonical_query |-> canonical]>>]
               ELSE threadStates
  /\ UNCHANGED offThreads

NextThreads ==
  \/ ProcessStart
  \/ IntentSeen
  \/ TurnCompletes

SpecThreads == InitThreads /\ [][NextThreads]_vars

(***************************************************************************)
(* The replay buffer of the job manager (services/query_job_manager.py)    *)
(***************************************************************************)
MaxEvents == 52

\* the length above which add_event drops the oldest event
BufferLimit == 50

\* add_event: create the buffer if absent, pop(0) if longer than the limit,
\* append
add_event(buffers, conversation_id, event) ==
  LET cur == IF conversation_id \in DOMAIN buffers THEN buffers[conversation_id] ELSE <<>>
      kept == IF Len(cur) > BufferLimit THEN Tail(cur) ELSE cur
  IN Register(buffers, conversation_id, Append(kept, event))

InitEvents ==
  /\ EventsIdle
  /\ Idle("events")

\* the job of a conversation broadcasts its next event, which is buffered
AddEvent ==
  /\ \E c \in Conversations :
       /\ eventsSent[c] < MaxEvents
       /\ eventBuffers' = add_event(eventBuffers, c, eventsSent[c] + 1)
       /\ eventsSent' = [eventsSent EXCEPT ![c] = eventsSent[c] + 1]
  /\ UNCHANGED offEvents

\* submit_job starts the conversation's next job with an empty buffer
ResetBuffer ==
  /\ \E c \in Conversations :
       /\ eventBuffers' = Register(eventBuffers, c, <<>>)
       /\ eventsSent' = [eventsSent EXCEPT ![c] = 0]
  /\ UNCHANGED offEvents

NextEvents ==
  \/ AddEvent
  \/ ResetBuffer

SpecEvents == InitEvents /\ [][NextEvents]_vars

(***************************************************************************)
(* Properties                                                              *)
(***************************************************************************)
ValidationStages == {"schema_search", "query_builder", "native_schema_validator", "sql_corrector"}

\* C1: a turn performs at most 3 validations in total: one of the query
\* builder's SQL and at most 2 of corrected SQL.
C1_AtMostThreeValidations == hist.validations <= 3

\* C2: every run in which the corrector is invoked reaches a terminal stage
\* (response_composer or error_handler), whatever the repair call does.
C2_CorrectionTerminates ==
  ("sql_corrector" \in hist.executed)
    ~> (proc.completed /\ proc.final_node \in {"response_composer", "error_handler"})

\* C3: a proposal equal to the failed SQL after normalization is rejected:
\* the correction counter grows by exactly one, the SQL and its validation
\* verdict stay as they were, and the run goes on to another correction
\* (through the validator, which checks nothing) unless the budget is used up.
C3_IdenticalFixRejected ==
  [][ /\ (node = "sql_corrector" /\ hist'.proposalSame) =>
           /\ state'.correction_iteration = state.correction_iteration + 1
           /\ state'.generated_sql = state.generated_sql
           /\ state'.validation_success = state.validation_success
           /\ state'.error # NoError
           /\ node' = IF state'.correction_iteration < 3
                      THEN "native_schema_validator" ELSE "error_handler"
      /\ (node = "native_schema_validator" /\ hist.proposalSame) =>
           /\ state' = state
           /\ hist'.validations = hist.validations
           /\ node' = "sql_corrector"
    ]_vars

C3_Witness ==
  /\ hist.proposalSame
  /\ node = "sql_corrector"
  /\ state.correction_iteration = 1

\* C4: after the sandbox check reported a connection failure the corrector
\* is never invoked, the correction counter keeps its value (0 when the
\* failure came on the first validation) and the run ends at the next stage.
C4_ConnectionFailureNotRetried ==
  hist.connErrorAt # -1 =>
    /\ ~hist.correctorAfterConn
    /\ state.correction_iteration = hist.connErrorAt
    /\ (hist.validations = 1 => state.correction_iteration = 0)
    /\ node \in {"response_composer", "END"}
    /\ (proc.completed => proc.final_node = "response_composer")

C4_Witness ==
  /\ hist.connErrorAt = 1
  /\ proc.completed

\* C5: a query run is reported as successful only if it ended in
\* response_composer with SQL that passed validation; a run whose final
\* state carries an error is reported as failed with that error text.
C5_SuccessMeansValidated ==
  (proc.completed /\ "query_builder" \in hist.executed) =>
    /\ proc.is_success =>
         /\ proc.final_node = "response_composer"
         /\ state.validation_success = "true"
         /\ hist.validatedSql = state.generated_sql
    /\ state.error # NoError =>
         /\ ~proc.is_success
         /\ proc.error_message = state.error

\* C6: every table named in FROM/JOIN of SQL accepted by validation belongs
\* to the tables in scope of the turn.
C6_ScopeContainment ==
  hist.validatedSql # NoSql => SqlTables(hist.validatedSql) \subseteq hist.validatedScope

\* C7: SQL delivered by a completion that passed validation names no
\* non-queryable table or column.
C7_NoRestrictedEntityDelivered ==
  (/\ proc.completed
   /\ proc.final_node = "response_composer"
   /\ state.validation_success = "true"
   /\ proc.sql # NoSql) => ~ReferencesRestricted(proc.sql)

C9_NonQueryIntentAnsweredDirectly ==
  (/\ "unified_intent" \in hist.executed
   /\ \/ state.intent.primary_intent \notin {"database_query", "correction"}
      \/ state.intent.route_to = "none") =>
    /\ hist.executed \cap ValidationStages = {}
    /\ node \in DirectResponders \cup {"END"}
    /\ (proc.completed => proc.final_node \in DirectResponders)

C9_Witness ==
  /\ proc.completed
  /\ state.intent.primary_intent = "greeting"
  /\ state.intent.route_to = "query_builder"

\* C10: after schema_search the run goes to the no-match response exactly
\* when the relevant-table set is empty, and then query_builder never runs.
C10_NoMatchIffEmpty ==
  /\ hist.emptySearch = "true" =>
       /\ node \in {"no_match_responder", "END"}
       /\ "query_builder" \notin hist.executed
       /\ (proc.completed => proc.final_node = "no_match_responder")
  /\ hist.emptySearch = "false" =>
       /\ node # "no_match_responder"
       /\ "no_match_responder" \notin hist.executed

C10_Witness ==
  /\ hist.emptySearch = "true"
  /\ proc.completed
  /\ state.is_refinement

UncancelledJobs(c) ==
  {t \in DOMAIN tasks : tasks[t].conversation = c /\ tasks[t].status = "running"}

\* C11: for each conversation at most one job is running un-cancelled at any
\* time, and it is the registered one; a submission cancels the previous
\* unfinished job of the conversation in the step that registers the new one.
C11_OneLiveJobPerConversation ==
  \A c \in Conversations :
    /\ Cardinality(UncancelledJobs(c)) <= 1
    /\ \A t \in UncancelledJobs(c) : c \in DOMAIN activeJobs /\ activeJobs[c].task = t

C11_Witness ==
  \E c \in Conversations : \E t, u \in DOMAIN tasks :
    /\ tasks[t].conversation = c
    /\ tasks[u].conversation = c
    /\ tasks[t].status = "cancelling"
    /\ tasks[u].status = "running"

\* C12: concurrent runs share no mutable state besides the caches: the LLM
\* client a run calls is one the run itself created, never one that another
\* run wrote into the node set bound into the cached compiled graph.
C12_NoSharedMutableState ==
  \A r \in DOMAIN runs : runs[r].llmUsed \subseteq {r}

\* the turn was classified as a refinement by the intent stage and has ended
RefinementTurn ==
  /\ "unified_intent" \in hist.executed
  /\ state.is_refinement
  /\ proc.completed

\* relevant_schema is prior \cup found cut at 25, without repetition
MergedAndCut ==
  LET rs == SeqToSet(state.relevant_schema)
      both == SeqToSet(hist.prior) \cup SeqToSet(hist.found)
  IN /\ rs \subseteq both
     /\ Len(state.relevant_schema) = Cardinality(rs)
     /\ Cardinality(rs) = IF Cardinality(both) < 25 THEN Cardinality(both) ELSE 25

\* C13 (as stated): on a refinement turn with prior set S and found set S'
\* the relevant set is S \cup S' cut at 25, whatever the size of S, and holds
\* all of S when S has at most 25 tables.
C13_MergedAndCutAlways ==
  RefinementTurn =>
    /\ MergedAndCut
    /\ (Len(hist.prior) <= 25 => SeqToSet(hist.prior) \subseteq SeqToSet(state.relevant_schema))

\* C13 (amended): on a refinement turn whose prior set S has at most 25
\* tables the relevant set is S \cup S' cut at 25 and holds all of S, on every
\* path (search skipped, performed or failed).
C13_RefinementKeepsPrior ==
  (RefinementTurn /\ Len(hist.prior) <= 25) =>
    /\ MergedAndCut
    /\ SeqToSet(hist.prior) \subseteq SeqToSet(state.relevant_schema)

C13_Witness ==
  /\ RefinementTurn
  /\ Len(hist.prior) = 24
  /\ hist.searchPath = "performed"
  /\ Len(state.relevant_schema) = 25

\* C14: on a turn classified as a new query that goes on to search or
\* compilation, relevant_schema and pinned_schema of the previous turn are
\* cleared when the intent stage returns; afterwards the relevant set holds
\* only what this turn's search found, or the whole catalog when it failed.
C14_NewQueryDropsStaleSchema ==
  (/\ "unified_intent" \in hist.executed
   /\ ~state.is_refinement
   /\ \/ node \in {"schema_search", "query_builder"}
      \/ hist.executed \cap {"schema_search", "query_builder"} # {}) =>
    /\ hist.atIntent = << <<>>, <<>> >>
    /\ state.pinned_schema = <<>>
    /\ hist.searchPath # "skipped"
    /\ hist.searchPath = "none" => state.relevant_schema = <<>>
    /\ hist.searchPath = "performed" =>
         SeqToSet(state.relevant_schema) \subseteq SeqToSet(hist.found)
    /\ hist.searchPath = "failed" => state.relevant_schema = AllTables

C14_Witness ==
  /\ proc.completed
  /\ ~state.is_refinement
  /\ hist.prior = AllTables
  /\ hist.searchPath = "performed"
  /\ state.relevant_schema # <<>>
  /\ "secrets" \notin SeqToSet(state.relevant_schema)

\* C15: the relevant-table set returned by schema_search never holds more
\* than 25 tables, on any path including the fallback of a failed search.
C15_AtMostTwentyFiveTables ==
  "schema_search" \in hist.executed => Len(state.relevant_schema) <= 25

\* C16: enforcing queryability on an already enforced query changes nothing:
\* the filtered query of the second application equals that of the first.
C16_EnforceIdempotent ==
  Len(enforced) = 2 => enforced[2].query = enforced[1].query

\* the tables a filtered query has in scope
InScope(fq) == {PrimaryName(fq)} \cup {fq.joins[i].table : i \in 1..Len(fq.joins)}

\* the references a filtered query still makes
ReferencesOf(fq) ==
  SeqToSet(fq.columns) \cup SeqToSet(fq.filters)
    \cup SeqToSet(fq.group_by) \cup SeqToSet(fq.order_by)
    \cup {fq.joins[i].on.left_column : i \in 1..Len(fq.joins)}
    \cup {fq.joins[i].on.right_column : i \in 1..Len(fq.joins)}

\* the tables the warnings report as removed
WarnedTables(r) == {t \in TableNames : <<"non_queryable_table", t>> \in r.warnings}

\* reference e, made by the filtered query of result r for query q, names a
\* removed table or a non-queryable column of a table in scope
RefersToRestricted(q, r, e) ==
  IF e.qual # ""
  THEN \/ alias_to_table(q, e.qual) \in WarnedTables(r)
       \/ ~col_queryable(alias_to_table(q, e.qual), e.col)
  ELSE \E t \in InScope(r.query) : InColMap(t, e.col) /\ ~ColumnQueryable(t, e.col)

\* C17: after enforcement no select item, filter, group-by key, order-by key
\* or join condition references a removed table or a non-queryable column,
\* naked names being judged against every table in scope after enforcement.
C17_NoRestrictedReferenceKept ==
  Len(enforced) >= 1 =>
    \A e \in ReferencesOf(enforced[1].query) : ~RefersToRestricted(cquery, enforced[1], e)

\* the table names and aliases a canonical query declares
DeclaredTables(q) ==
  (IF q.primary_table = NoTable THEN {}
   ELSE {q.primary_table.name, q.primary_table.alias})
    \cup {q.joins[i].table : i \in 1..Len(q.joins)}
    \cup {q.joins[i].alias : i \in 1..Len(q.joins)}

\* some expression of the query is qualified by a table or alias that is
\* neither the primary table nor declared in joins
HasUnknownAlias(q) ==
  \E e \in ReferencesOf(q) : e.qual # "" /\ e.qual \notin DeclaredTables(q)

\* C19: generating SQL for a canonical query without a primary table, or
\* with an expression qualified by an undeclared table alias, ends in an
\* error and produces no SQL.
C19_InvalidQueryFailsToCompile ==
  (/\ compiled # <<>>
   /\ cquery.primary_table = NoTable \/ HasUnknownAlias(cquery)) =>
    /\ compiled[1].error # ""
    /\ compiled[1].sql = <<>>

\* every table the statement names is a non-queryable table of the catalog
FullyBlocked(sql) ==
  /\ sql # NoSql
  /\ SqlTables(sql) # {}
  /\ \A t \in SqlTables(sql) : t \in TableNames /\ ~TableQueryable(t)

\* the final responses of a successful run and of a technical failure
GenericResponses == {"query_generated", "not_able_to_process", "error_message"}

\* C18: a query all of whose tables are non-queryable is never handed to
\* validation, and the run that built it ends unsuccessfully with a response
\* that is neither the success response nor the generic error response.
C18_FullyBlockedIsPolicyDenied ==
  /\ hist.validatedSql # NoSql => ~FullyBlocked(hist.validatedSql)
  /\ (proc.completed /\ FullyBlocked(state.generated_sql)) =>
       /\ ~proc.is_success
       /\ state.final_response \notin GenericResponses

\* sequence part occurs in sequence whole as a contiguous piece
Contains(whole, part) ==
  \E i \in 1..(Len(whole) - Len(part) + 1) :
    SubSeq(whole, i, i + Len(part) - 1) = part

\* the run used up its correction budget and ended in error_handler
BudgetExhaustedRun ==
  /\ proc.completed
  /\ proc.final_node = "error_handler"
  /\ state.correction_iteration >= 3

\* C20: when the correction budget is used up and the run ends in the error
\* handler, the complete event carries the text of the last validation error
\* and the last statement that failed validation.
C20_ExhaustionReportsLastErrorAndSql ==
  BudgetExhaustedRun =>
    /\ hist.lastValidationError # NoError
    /\ Contains(proc.response_error, hist.lastValidationError)
    /\ proc.sql = hist.lastInvalidSql

\* the error lines of a sandbox failure with the given outcome, whichever
\* way it was classified
OutcomeLines(outcome) == {SandboxErrorText(outcome), ConnectionErrorText(outcome)}

\* the validator has just checked a statement and its error names one of the
\* given sandbox outcomes
SandboxFailed(outcomes, newValidations, oldValidations, error) ==
  /\ newValidations = oldValidations + 1
  /\ \E o \in outcomes : SeqToSet(error) \cap OutcomeLines(o) # {}

\* C21: a validation whose sandbox check could not reach the database
\* (connection details not loaded, database type unsupported, connection not
\* opened) is marked as a connection failure and is not routed to the
\* corrector.
C21_UnreachableDatabaseIsConnectionFailure ==
  [][(/\ node = "native_schema_validator"
      /\ SandboxFailed({"details_error", "unsupported_type", "conn_error"},
                       hist'.validations, hist.validations, state'.error)) =>
       /\ state'.is_connection_error
       /\ node' # "sql_corrector"]_vars

\* C22: a validation whose sandbox statement timed out on an open
\* connection is marked as failed, not as a connection failure, and is
\* routed to the corrector.
C22_StatementTimeoutIsCorrectable ==
  [][(/\ node = "native_schema_validator"
      /\ SandboxFailed({"timeout"}, hist'.validations, hist.validations, state'.error)) =>
       /\ ~state'.is_connection_error
       /\ state'.validation_success = "false"
       /\ node' = "sql_corrector"]_vars

C22_Witness ==
  /\ "sql_corrector" \in hist.executed
  /\ hist.lastCorrection \in {"identical", "llm_failed"}
  /\ SandboxErrorText("timeout") \in SeqToSet(hist.lastValidationError)
  /\ state.correction_iteration < 3
  /\ ~state.is_connection_error

\* C23: a run that ends in no_match_responder carries no error in its final
\* state and its audit record is not marked as failed.
C23_NoMatchIsNotAnError ==
  (proc.completed /\ proc.final_node = "no_match_responder") =>
    /\ state.error = NoError
    /\ proc.is_success
    /\ proc.error_message = NoError

\* C24: when the search raises (embedding provider failure), the relevant
\* set is what keyword and intent scoring alone give for the same message,
\* and the run goes on without an error.
C24_EmbeddingFailureDegradesToKeywords ==
  [][(node = "schema_search" /\ hist'.searchPath = "failed") =>
       /\ state'.relevant_schema =
            Merge(state, schema_search(state,
                    [failed |-> FALSE, vector |-> <<>>,
                     keywords |-> hist'.searchKeywords])).relevant_schema
       /\ state'.error = NoError
       /\ node' \in {"query_builder", "no_match_responder"}]_vars

\* tables t and u are the two ends of a relationship
DirectlyRelated(t, u) ==
  \E i \in 1..Len(Relationships) :
    \/ Relationships[i].sourceTable = t /\ Relationships[i].targetTable = u
    \/ Relationships[i].sourceTable = u /\ Relationships[i].targetTable = t

\* C25: every table the relationship expansion adds is one relationship away
\* from a table retained by scoring; nothing is added through a table that
\* the expansion itself added.
C25_ExpansionIsOneHop ==
  hist.searchPath = "performed" =>
    \A t \in SeqToSet(hist.found) \ SeqToSet(hist.retained) :
      \E u \in SeqToSet(hist.retained) : DirectlyRelated(t, u)

\* the tables the failed statement is about, read generously: every catalog
\* table whose name is a word of its text, and the canonical query's tables
FailedSqlTables(st) ==
  ({Lower(w) : w \in SeqToSet(Words(st.generated_sql))} \cap TableNames)
    \cup st.canonical_query

\* C26: the schema view placed in the repair prompt holds only tables of
\* the failed SQL (or of the canonical query when the SQL text yields none)
C26_RepairViewIsPinned ==
  rview # <<>> => rview[1] \subseteq FailedSqlTables(rstate)

\* the statement ends with LIMIT 0 at its top level, as the wrapped form does
FetchesZeroRows(stmt) ==
  LET w == Words(stmt)
  IN Len(w) >= 2 /\ Upper(w[Len(w) - 1]) = "LIMIT" /\ w[Len(w)] = "0"

\* C27: every statement the sandbox check sends to the database fetches
\* zero rows, whatever the SQL being validated
C27_SandboxFetchesNoRows ==
  sandbox_sql # <<>> => FetchesZeroRows(sandbox_sql[1])

\* the routed turn is a non-refinement query on the database path
NewDatabaseQuery(st) ==
  /\ st.error = NoError
  /\ ~st.is_refinement
  /\ st.intent.primary_intent \in {"database_query", "correction"}
  /\ st.intent.route_to # "none"

\* C28: after the intent analysis of a non-refinement database query the
\* run goes straight to query_builder exactly when the confidence is at
\* least 0.9, no schema search is requested and the required-table list is
\* non-empty; otherwise schema_search is the next node
C28_ShortcutIffConfidentAndComplete ==
  (routed # <<>> /\ NewDatabaseQuery(routed[1].state)) =>
     LET intent == routed[1].state.intent
         confident == /\ intent.confidence >= 90
                      /\ ~intent.needs_schema_search
                      /\ intent.required_tables # <<>>
     IN routed[1].next = IF confident THEN "query_builder" ELSE "schema_search"

\* a new database query at exactly the threshold took the shortcut
C28_Witness ==
  /\ routed # <<>>
  /\ NewDatabaseQuery(routed[1].state)
  /\ routed[1].state.intent.confidence = 90
  /\ routed[1].next = "query_builder"

\* the intent call of the run failed (raised, or returned nothing usable)
IntentCallFailed ==
  /\ "unified_intent" \in hist.executed
  /\ state.intent = FallbackIntent
  /\ state.final_response = "intent_fallback"

\* C29: after a failed intent call the run does not go to a direct
\* responder: the turn is treated as a new query and continues towards
\* the schema search
C29_IntentFailureProceedsToSearch ==
  IntentCallFailed =>
    /\ ~state.is_refinement
    /\ node \notin DirectResponders
    /\ hist.executed \cap DirectResponders = {}

\* C30: a read served from the cache never returns data that was fetched
\* before the latest invalidation, also when an invalidation fell between
\* a filling call's fetch and its store
C30_NoStaleEntryAfterInvalidation ==
  \A r \in DOMAIN readers :
    (readers[r].pc = "done" /\ readers[r].hit) => readers[r].got = readers[r].current

\* the entities the enforcer warns about, with the qualifier of a column
\* resolved through the aliases of the query
EnforcerFlags(q) ==
  LET w == _enforce_queryability(q).warnings
  IN {e \in w : e[1] = "non_queryable_table"}
       \cup {<<"non_queryable_column", ColRef(alias_to_table(q, e[2].qual), e[2].col)>> :
               e \in {x \in w : x[1] = "non_queryable_column" /\ x[2].qual # ""}}

\* the query names its columns with a qualifier, so that each belongs to
\* one declared table
FullyQualified(q) ==
  /\ q.primary_table # NoTable
  /\ \A i \in 1..Len(q.columns) : q.columns[i].qual \in SqlaTables(q)
  /\ q.filters = <<>> /\ q.group_by = <<>> /\ q.order_by = <<>>

\* C31: for a canonical query and the SQL compiled from it, the SQL-text
\* check and the canonical-query enforcement flag the same non-queryable
\* tables and columns
C31_TextCheckAgreesWithEnforcement ==
  (compiled # <<>> /\ compiled[1].error = "" /\ FullyQualified(cquery)) =>
     CheckCompiledSql(cquery, compiled[1].sql[1]) = EnforcerFlags(cquery)

\* the join kind a rendered keyword stands for
KindOfKeyword(keyword) ==
  CASE keyword = "JOIN" -> "INNER"
    [] keyword = "LEFT OUTER JOIN" -> "LEFT"
    [] keyword = "RIGHT OUTER JOIN" -> "RIGHT"
    [] keyword = "FULL OUTER JOIN" -> "FULL"
    [] OTHER -> "?"

\* the kind a join declares; INNER when it declares none
DeclaredKind(j) ==
  IF "type" \notin DOMAIN j THEN "INNER"
  ELSE CASE j.type \in {"LEFT", "left"} -> "LEFT"
         [] j.type = "RIGHT" -> "RIGHT"
         [] j.type = "FULL" -> "FULL"
         [] OTHER -> "INNER"

\* C32: the compiled SQL holds the joins in the order of their declaration,
\* each with the join keyword of its declared kind
C32_JoinsInOrderWithDeclaredKind ==
  (compiled # <<>> /\ compiled[1].error = "") =>
     LET emitted == compiled[1].sql[1].joins
     IN /\ Len(emitted) = Len(cquery.joins)
        /\ \A i \in 1..Len(emitted) :
             /\ emitted[i].table = TableKey(cquery.joins[i].table, cquery.joins[i].alias)
             /\ KindOfKeyword(emitted[i].keyword) = DeclaredKind(cquery.joins[i])

\* the scenario: customers, known as c, is the only table; c.email is
\* selected once, next to nothing else than the bare column id
SelectsAliasedEmail(q) ==
  /\ q.primary_table = [name |-> "customers", alias |-> "c"]
  /\ q.joins = <<>>
  /\ q.columns \in {<<ColRef("c", "email")>>,
                    <<ColRef("", "id"), ColRef("c", "email")>>,
                    <<ColRef("c", "email"), ColRef("", "id")>>}

\* C33: with customers.email non-queryable, enforcing a canonical query
\* that selects c.email (c the alias of customers) removes the item and
\* yields exactly one warning, of kind non_queryable_column, about
\* customers.email
C33_AliasedEmailRemovedWithOneWarning ==
  (enforced # <<>> /\ SelectsAliasedEmail(cquery)) =>
     /\ \A i \in 1..Len(enforced[1].query.columns) :
          enforced[1].query.columns[i] # ColRef("c", "email")
     /\ enforced[1].warnings = {<<"non_queryable_column", ColRef("customers", "email")>>}

\* the score of a table as the weights state it: 10 times the similarity
\* of each of its table-level hits of similarity 0.5 or more, 15 for a
\* keyword match, 25 for each match of an intent table
StatedScore(t, inp) ==
  LET hits == {i \in 1..Len(inp.vector) : inp.vector[i][1] = t /\ inp.vector[i][2] >= 5}
      names == inp.relevant_tables_from_intent
      RECURSIVE Sum(_)
      Sum(S) == IF S = {} THEN 0
                ELSE LET i == CHOOSE x \in S : TRUE IN inp.vector[i][2] + Sum(S \ {i})
  IN Sum(hits) + (IF t \in inp.keywords THEN 15 ELSE 0)
       + 25 * Cardinality({i \in 1..Len(names) : names[i] = t})

\* the catalog tables that have a signal
Candidates(inp) == {t \in TableNames : StatedScore(t, inp) > 0}

C35_ReportedSqlIsOfThisTurn ==
  (proc.completed /\ proc.has_sql /\ ~SqlMissing(proc.sql)) =>
     (~SqlMissing(state.generated_sql) /\ proc.sql = state.generated_sql)

\* the turn was answered by a responder as a conversational turn
ConversationalTurn ==
  /\ proc.completed
  /\ proc.final_node \in DirectResponders
  /\ state.intent.primary_intent \in {"greeting", "query_explanation", "data_guide", "out_of_scope"}

\* C36: a conversational turn on an existing thread saves the thread with
\* the SQL and the relevant-table set it had before the turn
C36_ConversationalTurnKeepsThread ==
  ConversationalTurn =>
    /\ SavedThreadState(proc, state).generated_sql = state.previous_sql
    /\ SavedThreadState(proc, state).relevant_schema = hist.prior

\* a refinement turn of the database path for which the intent stage
\* lists new entities
RefinementWithNewEntities(st) ==
  /\ st.error = NoError
  /\ st.intent.primary_intent \in {"database_query", "correction"}
  /\ st.intent.route_to # "none"
  /\ st.is_refinement
  /\ st.new_entities

\* C37: on a refinement turn with new entities the edge after the intent
\* stage chooses schema_search, and schema_search does not take its early
\* return
C37_NewEntitiesAreSearched ==
  (routed # <<>> /\ RefinementWithNewEntities(routed[1].state)) =>
     /\ routed[1].next = "schema_search"
     /\ Len(routed) = 2 => routed[2].search # "skipped"

\* C38: while the task registered for a conversation has not ended, the
\* conversation is reported running, whatever superseded tasks of the same
\* conversation have ended and run their callbacks
C38_SupersededJobLeavesStatus ==
  \A c \in DOMAIN activeJobs :
     ~TaskDone(activeJobs[c].task) => is_running(c)

\* a superseded task has ended and run its callback while the newer task of
\* the conversation is still running
C38_Witness ==
  \E c \in DOMAIN activeJobs : \E t \in DOMAIN tasks :
     /\ t # activeJobs[c].task
     /\ tasks[t].conversation = c
     /\ tasks[t].cleaned
     /\ tasks[activeJobs[c].task].status = "running"
     /\ is_running(c)

\* a completed and saved turn, on a thread that had a saved state, that the
\* intent stage classified as a new database query (not a refinement)
NewQueryOnExistingThread ==
  /\ turn.pc = "done"
  /\ turn.saved
  /\ turn.given # 0
  /\ turn.before[turn.given] # <<>>
  /\ turn.primary_intent = "database_query"
  /\ ~turn.is_refinement

\* C39: a new unrelated database query on an existing thread is saved under
\* a fresh thread id, and the saved state of the thread it was sent on is the
\* one it had before the turn
C39_NewQueryForksThread ==
  NewQueryOnExistingThread =>
    /\ turn.thread_id # turn.given
    /\ threadStates[turn.thread_id] # <<>>
    /\ threadStates[turn.thread_id][1].user_message = turn.n
    /\ threadStates[turn.given] = turn.before[turn.given]

\* C40: the replay buffer of a conversation never holds more than 50 events
C40_BufferHoldsAtMostFifty ==
  \A c \in DOMAIN eventBuffers : Len(eventBuffers[c]) <= 50

====
